---------------------------- MODULE Spec2Model ----------------------------
(***************************************************************************)
(* A model of mongolite: the connection server (proxy.Server), the request *)
(* dispatcher (emulator.MongoEmulator) with its built-in commands, and the *)
(* stream recorder (handler.Recorder).                                     *)
(*                                                                         *)
(* Three families of specifications share the module:                      *)
(*   Spec          connection tasks running handleConn over one shared     *)
(*                 MongoEmulator (lastError map, backend, built-ins);      *)
(*   ListenSpec    Server.Listen: accept loop, registration of each        *)
(*                 connection, the shutdown goroutine and the wait group   *)
(*                 (ListenFairSpec adds the scheduler's fairness);         *)
(*   RecorderSpec  concurrent Recorder.HandleRequest calls.                *)
(* Variables a specification does not use keep their initial value.        *)
(***************************************************************************)
EXTENDS Integers, Sequences, FiniteSets, TLC

\* The connections (client ids are the remote addresses, one per connection).
Clients == {"c1", "c2"}

\* Bound: frames a client puts on its connection before closing it.
MaxFrames == 2

\* Bound: frames a client sends on a connection served by Server.Listen.
MaxSends == 1

\* Bound: Recorder.HandleRequest calls each connection makes.
MaxCalls == 2

VARIABLES
  \* ---- Spec: handleConn over the shared MongoEmulator
  pc,             \* pc[c]: where connection c's task is in handleConn / HandleRequest
  streamLen,      \* streamLen[c]: frames on c's input stream before the client's EOF
  nRead,          \* nRead[c]: frames bufferNextRequest has handed to the handler
  hr,             \* hr[c]: the HandleRequest call in progress or last finished
  lastError,      \* emu.lastError: a map, its domain being the keys present
  backendCalls,   \* backendCalls[c]: request ids passed to Backend.HandleRequest
  backendRemoved, \* backendRemoved[c]: Backend.RemoveClient calls made for c
  removed,        \* removed[c]: what the last RemoveClient(c) got and returned
  endReason,      \* endReason[c]: why handleConn returned
  crashed,        \* the Go runtime aborted the process (fatal error)
  \* ---- ListenSpec: Server.Listen
  ctxDone,        \* ctx.Done() is closed: the cancellation signal has fired
  listenerOpen,   \* the listener l has not been closed
  listenPc,       \* the accept loop: "accept", "wait" (wg.Wait) or "returned"
  shutPc,         \* the shutdown goroutine: "wait", "lock" (at mu.Lock) or "done"
  mu,             \* who holds the mutex: "free", "shutdown" or a connection's task
  activeConns,    \* the keys of the activeConns map
  wg,             \* the wait group's counter
  conn,           \* conn[c]: "none" (not accepted), "open" or "closed" (by the server)
  tpc,            \* tpc[c]: where c's task is in the goroutine of lines 61-97
  tEnd,           \* tEnd[c]: why the task left its body
  sends,          \* sends[c]: frames the client of c has sent
  removeCalls,    \* removeCalls[c]: reqHandler.RemoveClient calls made for c
  \* ---- RecorderSpec: Recorder.HandleRequest
  rpc,            \* rpc[c]: where c's HandleRequest call is
  calls,          \* calls[c]: HandleRequest calls c has started
  recMu,          \* who holds Recorder.mu: "free" or a connection
  reqStream,      \* what was written to the request sink, chunk by chunk
  resStream,      \* what was written to the response sink
  resBuf,         \* the shared response buffer
  upstream,       \* upstream[c]: what was written to c's client writer
  wire,           \* every write the Recorder's calls made, in order, byte for byte
  \* ---- FramerSpec: handleConn's loop over bufferNextRequest, byte for byte
  fstream,        \* the bytes the client has sent and the server has not read yet
  fend,           \* how the stream ends once it is used up: "eof" or "ioerr"
  fbuf,           \* reqBuffer, the scratch buffer handleConn reuses
  fbefore,        \* the unread bytes as the last bufferNextRequest call began
  fpc,            \* "read", "dispatch" (HandleRequest has the buffer) or "done"
  ferr,           \* the error handleConn returned
  flog,           \* how the connection task logged the end of the connection
  \* ---- CallSpec: one call of a function of the protocol or emulator package
  cfn,            \* the function called last ("none" before the first call)
  cargs,          \* its arguments
  cret,           \* what it returned, and what it wrote if it writes
  decoders,       \* the bodies the entries of cmdDecoder run
  \* ---- RemoteSpec: connections sharing one RemoteMongo handler
  hpc,            \* hpc[c]: where c's call of RemoteMongo.HandleRequest is
  hcalls,         \* hcalls[c]: calls c's connection has made
  hresLen,        \* hresLen[c]: the local resLen of c's call
  hcopy,          \* hcopy[c]: what c's io.CopyN or WriteTo under way holds
  remoteIn,       \* requests written to h.remote that the upstream has not taken yet
  remoteOut,      \* bytes the upstream has sent on h.remote, not read yet
  remoteOpen,     \* the upstream has not closed h.remote
  resBuffer,      \* h.resBuffer, shared by every call: its array, length and offset
  arrays,         \* the byte arrays allocated for h.resBuffer: capacity and bytes
  delivered       \* delivered[c]: what was written to c's client, call by call

emuVars == <<pc, streamLen, nRead, hr, lastError, backendCalls, backendRemoved,
             removed, endReason, crashed>>

listenVars == <<ctxDone, listenerOpen, listenPc, shutPc, mu, activeConns, wg,
                conn, tpc, tEnd, sends, removeCalls>>

recVars == <<rpc, calls, recMu, reqStream, resStream, resBuf, upstream, wire>>

framerVars == <<fstream, fend, fbuf, fbefore, fpc, ferr, flog>>

callVars == <<cfn, cargs, cret, decoders>>

remoteVars == <<hpc, hcalls, hresLen, hcopy, remoteIn, remoteOut, remoteOpen,
                resBuffer, arrays, delivered>>

vars == <<emuVars, listenVars, recVars, framerVars, callVars, remoteVars>>

\* Listen, lines 31-52: the listener is open, nothing is registered, the
\* shutdown goroutine waits for the signal, no task has been started.
ListenInit ==
  /\ ctxDone = FALSE
  /\ listenerOpen = TRUE
  /\ listenPc = "accept"
  /\ shutPc = "wait"
  /\ mu = "free"
  /\ activeConns = {}
  /\ wg = 0
  /\ conn = [c \in Clients |-> "none"]
  /\ tpc = [c \in Clients |-> "none"]
  /\ tEnd = [c \in Clients |-> "none"]
  /\ sends = [c \in Clients |-> 0]
  /\ removeCalls = [c \in Clients |-> 0]

\* NewRecorder: an unlocked mutex, empty sinks and an empty buffer.
RecorderInit ==
  /\ rpc = [c \in Clients |-> "idle"]
  /\ calls = [c \in Clients |-> 0]
  /\ recMu = "free"
  /\ reqStream = << >>
  /\ resStream = << >>
  /\ resBuf = << >>
  /\ upstream = [c \in Clients |-> << >>]
  /\ wire = << >>

--------------------------------------------------------------------------
(* Errors.  An error value carries its Error() text, the sentinel it is    *)
(* (or wraps, for xerrors.Is) and, for a protocol.ServerError, its code.   *)

NoErr == [msg |-> "", sentinel |-> "", srv |-> FALSE, code |-> 0]

ErrUnsupportedRequest ==
  [msg |-> "unsupported request", sentinel |-> "ErrUnsupportedRequest",
   srv |-> FALSE, code |-> 0]

ErrInvalidCursor ==
  [msg |-> "invalid cursor", sentinel |-> "ErrInvalidCursor",
   srv |-> FALSE, code |-> 0]

\* xerrors.Errorf("command %q: %w", req.Command, ErrUnsupportedRequest)
CommandUnsupported(cmd) ==
  [msg |-> "command \"" \o cmd \o "\": unsupported request",
   sentinel |-> "ErrUnsupportedRequest", srv |-> FALSE, code |-> 0]

CodeUnauthorized == 13
CodeNoReplicationEnabled == 76

\* ErrorCode.String
CodeString(ec) ==
  IF ec = CodeUnauthorized THEN "Unauthorized"
  ELSE IF ec = CodeNoReplicationEnabled THEN "NoReplicationEnabled"
  ELSE "Unknown"

\* ServerErrorf: a ServerError{Msg, Code}
ServerErrorf(code, text) ==
  [msg |-> text, sentinel |-> "", srv |-> TRUE, code |-> code]

\* xerrors.Is(err, target) for the two sentinels of the emulator package
Is(err, target) == err # NoErr /\ err.sentinel = target.sentinel /\ target.sentinel # ""

--------------------------------------------------------------------------
(* Wire frames and protocol.Decode.  A frame is kept as what Decode reads  *)
(* from it: the header's opcode, whether the body parses, the namespace's  *)
(* database and, for a $cmd query or an OP_MSG body, the first field name  *)
(* and the arguments the command's decoder looks for.                      *)

\* args holds "documents", "deletes" for a list of documents under that key,
\* "updates" for a list of one or more documents and "noUpdates" for an empty
\* list under updates, "update" for a document under that key, "remove" for
\* remove: true, and "badArrayFilters" for a list under arrayFilters with an
\* element that is not a document.
Frame(op, body, db, cmd, args) ==
  [op |-> op, body |-> body, db |-> db, cmd |-> cmd, args |-> args]

Frames ==
  { Frame(2002, "valid", "test", "", {}),              \* OP_INSERT
    Frame(2005, "valid", "test", "", {}),              \* OP_GET_MORE
    Frame(2004, "valid", "admin", "getLastError", {}), \* OP_QUERY on admin.$cmd
    Frame(2013, "valid", "admin", "isMaster", {}),     \* OP_MSG
    Frame(2004, "truncated", "", "", {}) }             \* OP_QUERY cut short

\* The keys of cmdDecoder.
HasSubDecoder(cmd) == cmd \in {"insert", "update", "delete", "find", "findAndModify"}

\* The decoders of cmdDecoder: the request type each makes of the command's
\* arguments, "" when it returns an error.
SubDecoded(cmd, args) ==
  CASE cmd = "insert" -> IF "documents" \in args THEN "insert" ELSE ""
    [] cmd = "update" ->
         IF "noUpdates" \in args THEN "update"
         ELSE IF "updates" \notin args THEN ""
         ELSE IF "badArrayFilters" \in args THEN ""
         ELSE "update"
    [] cmd = "delete" -> IF "deletes" \in args THEN "delete" ELSE ""
    [] cmd = "find" -> "query"
    [] cmd = "findAndModify" ->
         IF "remove" \in args THEN "findAndDelete"
         ELSE IF "update" \notin args THEN ""
         ELSE IF "badArrayFilters" \in args THEN ""
         ELSE "findAndUpdate"
    [] OTHER -> ""

Request(f, type, reply) ==
  [ok |-> TRUE, type |-> type, reply |-> reply, cmd |-> f.cmd, db |-> f.db]

DecodeFailed == [ok |-> FALSE, type |-> "", reply |-> "", cmd |-> "", db |-> ""]

\* The bodies the entries of cmdDecoder can run.  cmdDecoder holds functions
\* of four parameters, the last the reply type (errors.go:75), and both call
\* sites hand it over (452, 611); the bodies under src/, in part_011, take
\* three and fix the reply type themselves.  Which bodies a build runs is
\* not settled by the source: "part_011" stands for the bodies present, and
\* "cmdDecoder" for bodies of the declared type, which give the request the
\* reply type they are handed.
DecoderBodies == {"part_011", "cmdDecoder"}

\* The reply type of the request a sub-decoder of cmdDecoder makes of the
\* reply type its caller hands it: the five bodies of part_011 build their
\* request with replyType: ReplyTypeOpReply (lines 26, 78, 109, 129, 171 and
\* 200) whatever the caller asks for; bodies of the declared type use the
\* fourth argument.
subDecoderReplyType(cmd, replyType) ==
  IF decoders = "part_011" THEN "OpReply" ELSE replyType

\* dec(hdr, nsCol, cmdArgs, replyType) for a command that has a decoder.
SubDecode(f, replyType) ==
  IF SubDecoded(f.cmd, f.args) = "" THEN DecodeFailed
  ELSE Request(f, SubDecoded(f.cmd, f.args), subDecoderReplyType(f.cmd, replyType))

\* protocol.Decode: the opcode selects the decoder, the decoder fixes the
\* request type and the reply type.
Decode(f) ==
  IF f.op \in {2001, 2002, 2004, 2005, 2006, 2007, 2013} /\ f.body # "valid"
  THEN DecodeFailed
  ELSE CASE f.op = 2001 -> Request(f, "update", "None")
         [] f.op = 2002 -> Request(f, "insert", "None")
         [] f.op = 2005 -> Request(f, "getMore", "OpReply")
         [] f.op = 2006 -> Request(f, "delete", "None")
         [] f.op = 2007 -> Request(f, "killCursors", "None")
         [] f.op = 2004 ->
              IF f.cmd = "" THEN Request(f, "query", "OpReply")
              ELSE IF HasSubDecoder(f.cmd) THEN SubDecode(f, "OpReply")
              ELSE Request(f, "command", "OpReply")
         [] f.op = 2013 ->
              IF HasSubDecoder(f.cmd) THEN SubDecode(f, "OpMsg")
              ELSE Request(f, "command", "OpMsg")
         [] OTHER -> Request(f, "unknown", "None")

--------------------------------------------------------------------------
(* Responses, the backend and the built-in command handlers.               *)

ResponseFlagCursorNotFound == 1
ResponseFlagQueryError == 2

\* protocol.Response{}: the zero response
EmptyResponse == [flags |-> 0, docs |-> <<>>]

\* A document the backend returns; the dispatcher never looks inside it.
BackendDoc == ("ok" :> "1")

\* What Backend.HandleRequest may return: a response of one or two documents,
\* or one of the package's errors.
BackendResults ==
  { [res |-> [flags |-> 0, docs |-> <<BackendDoc>>], err |-> NoErr],
    [res |-> [flags |-> 0, docs |-> <<BackendDoc, BackendDoc>>], err |-> NoErr],
    [res |-> EmptyResponse, err |-> ErrUnsupportedRequest],
    [res |-> EmptyResponse, err |-> ErrInvalidCursor] }

\* A name is a string of ASCII characters in which a rune outside ASCII is
\* written \uXXXX, with four lower-case hexadecimal digits.
LowerLetters == "abcdefghijklmnopqrstuvwxyz"
UpperLetters == "ABCDEFGHIJKLMNOPQRSTUVWXYZ"
HexDigits == "0123456789abcdef"

\* The value of a hexadecimal digit, and the digit of a value.
HexValue(ch) == (CHOOSE j \in 1..16 : SubSeq(HexDigits, j, j) = ch) - 1
HexChar(v) == SubSeq(HexDigits, v + 1, v + 1)

\* A rune \uXXXX begins at place i of s.
IsRuneAt(s, i) == i + 5 <= Len(s) /\ SubSeq(s, i, i + 1) = "\\u"

\* The rune written at places i..i+5 of s.
RuneAt(s, i) ==
  4096 * HexValue(SubSeq(s, i + 2, i + 2)) + 256 * HexValue(SubSeq(s, i + 3, i + 3))
    + 16 * HexValue(SubSeq(s, i + 4, i + 4)) + HexValue(SubSeq(s, i + 5, i + 5))

\* The rune r as it is written in a name.
RuneString(r) ==
  IF r >= 65 /\ r <= 90 THEN SubSeq(UpperLetters, r - 64, r - 64)
  ELSE "\\u" \o HexChar(r \div 4096) \o HexChar((r \div 256) % 16)
         \o HexChar((r \div 16) % 16) \o HexChar(r % 16)

\* unicode.ToUpper of a rune from U+0080 to U+017F (Latin-1 Supplement and
\* Latin Extended-A): the micro sign has its upper case among the Greek
\* letters, y with diaeresis at U+0178, dotless i and long s among the ASCII
\* letters (I and S); the other letters with an upper case have it 32 below
\* or next to them; every other rune stays.
UnicodeToUpper(r) ==
  CASE r = 181 -> 924
    [] r \in 224..246 \cup 248..254 -> r - 32
    [] r = 255 -> 376
    [] r = 305 -> 73
    [] r = 383 -> 83
    [] r \in 256..303 \cup 306..311 \cup 330..375 -> r - (r % 2)
    [] r \in 313..328 \cup 377..382 -> r - ((r + 1) % 2)
    [] OTHER -> r

\* unicode.ToUpper of one ASCII character of a name
UpperOf(ch) ==
  IF \E i \in 1..Len(LowerLetters) : SubSeq(LowerLetters, i, i) = ch
    THEN LET i == CHOOSE j \in 1..Len(LowerLetters) : SubSeq(LowerLetters, j, j) = ch
         IN SubSeq(UpperLetters, i, i)
    ELSE ch

\* The runes of s from place i on, each mapped to upper case.
RECURSIVE UpperFrom(_, _)
UpperFrom(s, i) ==
  IF i > Len(s) THEN ""
  ELSE IF IsRuneAt(s, i)
    THEN RuneString(UnicodeToUpper(RuneAt(s, i))) \o UpperFrom(s, i + 6)
  ELSE UpperOf(SubSeq(s, i, i)) \o UpperFrom(s, i + 1)

\* strings.ToUpper: unicode.ToUpper of every rune
ToUpper(s) == UpperFrom(s, 1)

\* registerCommandHandlers: the keys of emu.cmdHandlers
cmdHandlers ==
  { ToUpper(n) : n \in {"isMaster", "whatsMyUri", "buildInfo", "replSetGetStatus", "getLog"} }

handleIsMaster(clientID) ==
  [res |-> [flags |-> 0,
            docs |-> <<("ok" :> "1") @@ ("ismaster" :> "true") @@ ("connectionId" :> clientID)>>],
   err |-> NoErr]

handleWhatsMyURI(clientID) ==
  [res |-> [flags |-> 0, docs |-> <<("ok" :> "1") @@ ("you" :> clientID)>>], err |-> NoErr]

handleBuildInfo ==
  [res |-> [flags |-> 0, docs |-> <<("ok" :> "1") @@ ("version" :> "3.6.8")>>], err |-> NoErr]

\* A handleReplSetGetStatus that compares the database name without regard
\* to case.
handleReplSetGetStatus_IgnoreCase(req) ==
  IF req.db \notin {"admin", "Admin", "ADMIN"}
  THEN [res |-> EmptyResponse,
        err |-> ServerErrorf(CodeUnauthorized,
                  "replSetGetStatus may only be run against the admin database.")]
  ELSE [res |-> EmptyResponse,
        err |-> ServerErrorf(CodeNoReplicationEnabled, "not running with --replSet")]

handleReplSetGetStatus(req) ==
  IF req.db # "admin"
  THEN [res |-> EmptyResponse,
        err |-> ServerErrorf(CodeUnauthorized,
                  "replSetGetStatus may only be run against the admin database.")]
  ELSE [res |-> EmptyResponse,
        err |-> ServerErrorf(CodeNoReplicationEnabled, "not running with --replSet")]

handleGetLog ==
  [res |-> [flags |-> 0, docs |-> <<("ok" :> "1") @@ ("log" :> "banner")>>], err |-> NoErr]

\* MongoEmulator.maybeProcessClientCommand
maybeProcessClientCommand(clientID, req) ==
  IF ToUpper(req.cmd) \in cmdHandlers
  THEN CASE ToUpper(req.cmd) = "ISMASTER" -> handleIsMaster(clientID)
         [] ToUpper(req.cmd) = "WHATSMYURI" -> handleWhatsMyURI(clientID)
         [] ToUpper(req.cmd) = "BUILDINFO" -> handleBuildInfo
         [] ToUpper(req.cmd) = "REPLSETGETSTATUS" -> handleReplSetGetStatus(req)
         [] OTHER -> handleGetLog
  ELSE [res |-> EmptyResponse, err |-> CommandUnsupported(req.cmd)]

\* A process that hands every unsupported request to the registry, whatever
\* its type.
process_AnyRequestType(clientID, req, b) ==
  IF Is(b.err, ErrUnsupportedRequest)
  THEN maybeProcessClientCommand(clientID, req)
  ELSE b

\* MongoEmulator.process, given what the backend returned for the request
process(clientID, req, b) ==
  IF Is(b.err, ErrUnsupportedRequest) /\ req.type = "command"
  THEN maybeProcessClientCommand(clientID, req)
  ELSE b

\* The decimal digits fmt prints.
Digits == <<"0", "1", "2", "3", "4", "5", "6", "7", "8", "9">>

\* A natural number in decimal.
RECURSIVE Decimal(_)
Decimal(n) == IF n < 10 THEN Digits[n + 1] ELSE Decimal(n \div 10) \o Digits[(n % 10) + 1]

\* fmt's %d of an ErrorCode
CodeDigits(ec) == IF ec < 0 THEN "-" \o Decimal(0 - ec) ELSE Decimal(ec)

\* ServerError.Error ("%s (code %d): %s") and the other errors' Error()
ErrorString(err) ==
  IF err.srv
  THEN CodeString(err.code) \o " (code " \o CodeDigits(err.code) \o "): " \o err.msg
  ELSE err.msg

\* A toErrorResponse that compares the error with ErrInvalidCursor instead
\* of asking xerrors.Is.
toErrorResponse_CompareSentinel(err, replyType) ==
  LET flags == IF err = ErrInvalidCursor THEN ResponseFlagCursorNotFound
               ELSE ResponseFlagQueryError
      errDoc == IF replyType = "OpReply"
                THEN ("$err" :> ErrorString(err)) @@ ("ok" :> "0")
                ELSE IF err.srv
                THEN ("errmsg" :> err.msg) @@ ("code" :> err.code)
                     @@ ("codeName" :> CodeString(err.code)) @@ ("ok" :> "0")
                ELSE ("errmsg" :> ErrorString(err)) @@ ("ok" :> "0")
  IN [flags |-> flags, docs |-> <<errDoc>>]

\* toErrorResponse
toErrorResponse(err, replyType) ==
  LET flags == IF Is(err, ErrInvalidCursor) THEN ResponseFlagCursorNotFound
               ELSE ResponseFlagQueryError
      errDoc == IF replyType = "OpReply"
                THEN ("$err" :> ErrorString(err)) @@ ("ok" :> "0")
                ELSE IF err.srv
                THEN ("errmsg" :> err.msg) @@ ("code" :> err.code)
                     @@ ("codeName" :> CodeString(err.code)) @@ ("ok" :> "0")
                ELSE ("errmsg" :> ErrorString(err)) @@ ("ok" :> "0")
  IN [flags |-> flags, docs |-> <<errDoc>>]

--------------------------------------------------------------------------
(* protocol.Encode: the message written with one Write, or a failure.      *)

NoBytes == [opcode |-> 0, responseTo |-> 0, flags |-> 0, docs |-> <<>>]

\* Encode(w, r, reqID, replyType) without the final Write: ok says whether the
\* body could be serialized, msg is the message handed to w.Write.
Encode(r, reqID, replyType) ==
  CASE replyType = "None" -> [ok |-> TRUE, msg |-> NoBytes]
    [] replyType = "OpReply" ->
         [ok |-> TRUE,
          msg |-> [opcode |-> 1, responseTo |-> reqID, flags |-> r.flags, docs |-> r.docs]]
    [] OTHER ->
         IF Len(r.docs) > 1 THEN [ok |-> FALSE, msg |-> NoBytes]
         ELSE [ok |-> TRUE,
               msg |-> [opcode |-> 2013, responseTo |-> reqID, flags |-> 0, docs |-> r.docs]]

--------------------------------------------------------------------------
(* The lastError map.                                                      *)

\* m[k] = v
MapSet(m, k, v) == [x \in DOMAIN m \cup {k} |-> IF x = k THEN v ELSE m[x]]

\* delete(m, k)
MapDelete(m, k) == [x \in DOMAIN m \ {k} |-> m[x]]

--------------------------------------------------------------------------
(* Spec: every connection runs Server.handleConn, which frames one request *)
(* at a time and passes it to MongoEmulator.HandleRequest; when handleConn *)
(* returns, the connection's task calls MongoEmulator.RemoveClient.        *)

NoFrame == Frame(0, "", "", "", {})

\* No HandleRequest call made yet on the connection.
NoCall ==
  [rid |-> 0, frame |-> NoFrame, req |-> DecodeFailed, buffered |-> "absent",
   backendErr |-> NoErr, err |-> NoErr, res |-> EmptyResponse, wrote |-> NoBytes,
   ret |-> "none"]

\* What the map holds for the client as a getLastError command arrives, as a
\* value of one shape ("absent" without an entry, and for any other request).
Buffered(m, c, req) ==
  IF req.type = "command" /\ req.cmd = "getLastError" /\ c \in DOMAIN m
  THEN m[c].msg ELSE "absent"

\* NewMongoEmulator: an empty lastError map; no connection has sent anything.
\* lens[c] is the number of frames the client of c will send.
EmulatorInit(lens) ==
  /\ pc = [c \in Clients |-> "read"]
  /\ streamLen = lens
  /\ nRead = [c \in Clients |-> 0]
  /\ hr = [c \in Clients |-> NoCall]
  /\ lastError = << >>
  /\ backendCalls = [c \in Clients |-> << >>]
  /\ backendRemoved = [c \in Clients |-> 0]
  /\ removed = [c \in Clients |-> [backend |-> "none", returned |-> "none"]]
  /\ endReason = [c \in Clients |-> "none"]
  /\ crashed = FALSE

\* Before any call, in a specification whose inputs hold no command of
\* cmdDecoder: no decoder body runs, whichever the build has.
CallInit == cfn = "none" /\ cargs = << >> /\ cret = << >> /\ decoders = "part_011"

\* Before any call, with either set of decoder bodies.
DecoderInit ==
  cfn = "none" /\ cargs = << >> /\ cret = << >> /\ decoders \in DecoderBodies

\* NewRemoteMongoHandler has connected: nothing sent, nothing buffered.
RemoteInit ==
  /\ hpc = [c \in Clients |-> "idle"]
  /\ hcalls = [c \in Clients |-> 0]
  /\ hresLen = [c \in Clients |-> [hi |-> 0, lo |-> 0]]
  /\ hcopy = [c \in Clients |->
       [i |-> 0 - 1, rem |-> [hi |-> 0, lo |-> 0], arr |-> 0, lo |-> 0, hi |-> 0, n |-> 0, err |-> FALSE]]
  /\ remoteIn = << >>
  /\ remoteOut = << >>
  /\ remoteOpen = TRUE
  /\ resBuffer = [arr |-> 0, len |-> 0, off |-> 0]
  /\ arrays = << >>
  /\ delivered = [c \in Clients |-> << >>]

\* The framer of a connection nobody has opened: nothing sent, nothing read.
FramerInit ==
  /\ fstream = << >> /\ fend = "eof" /\ fbuf = << >> /\ fbefore = << >>
  /\ fpc = "idle" /\ ferr = [msg |-> "", cause |-> "", len |-> 0] /\ flog = "none"

Init ==
  /\ \E lens \in [Clients -> 0..MaxFrames] : EmulatorInit(lens)
  /\ ListenInit
  /\ RecorderInit
  /\ FramerInit
  /\ CallInit
  /\ RemoteInit

\* bufferNextRequest returns a frame: handleConn calls HandleRequest with it.
\* The request id of the k-th frame of a connection is k.
ReadFrame(c) ==
  /\ ~crashed
  /\ UNCHANGED <<listenVars, recVars, framerVars, callVars, remoteVars>>
  /\ pc[c] = "read"
  /\ nRead[c] < streamLen[c]
  /\ \E f \in Frames :
       hr' = [hr EXCEPT ![c] = [NoCall EXCEPT !.rid = nRead[c] + 1, !.frame = f,
                                              !.ret = "pending"]]
  /\ nRead' = [nRead EXCEPT ![c] = @ + 1]
  /\ pc' = [pc EXCEPT ![c] = "handle"]
  /\ UNCHANGED <<streamLen, lastError, backendCalls, backendRemoved, removed,
                 endReason, crashed>>

\* bufferNextRequest fails, and handleConn returns its error: the stream's end
\* (io.EOF once every frame has been read) or a failed read (the socket was
\* closed under the task, or the network failed).
ReadFails(c) ==
  /\ ~crashed
  /\ UNCHANGED <<listenVars, recVars, framerVars, callVars, remoteVars>>
  /\ pc[c] = "read"
  /\ \E why \in {"eof", "ioerr"} :
       /\ why = "eof" => nRead[c] = streamLen[c]
       /\ endReason' = [endReason EXCEPT ![c] = why]
  /\ pc' = [pc EXCEPT ![c] = "remove"]
  /\ UNCHANGED <<streamLen, nRead, hr, lastError, backendCalls, backendRemoved,
                 removed, crashed>>

\* A dispatcher that answers requests expecting no reply without asking the
\* backend (the mutant of HandleRequestProcess).
HandleRequestProcess_DropNoReply(c) ==
  /\ ~crashed
  /\ UNCHANGED <<listenVars, recVars, framerVars, callVars, remoteVars>>
  /\ pc[c] = "handle"
  /\ LET req == Decode(hr[c].frame) IN
     IF ~req.ok
     THEN /\ hr' = [hr EXCEPT ![c].ret = "error"]
          /\ pc' = [pc EXCEPT ![c] = "remove"]
          /\ endReason' = [endReason EXCEPT ![c] = "decode"]
          /\ UNCHANGED backendCalls
     ELSE \E b \in BackendResults :
            LET out == process(c, req, b) IN
            /\ backendCalls' = IF req.reply = "None" THEN backendCalls
                               ELSE [backendCalls EXCEPT ![c] = Append(@, hr[c].rid)]
            /\ hr' = [hr EXCEPT ![c].req = req, ![c].backendErr = b.err,
                                 ![c].err = out.err, ![c].res = out.res,
                                 ![c].buffered = Buffered(lastError, c, req)]
            /\ pc' = [pc EXCEPT ![c] = IF out.err # NoErr THEN "store" ELSE "reset"]
            /\ UNCHANGED endReason
  /\ UNCHANGED <<streamLen, nRead, lastError, backendRemoved, removed, crashed>>

\* A dispatcher that buffers a decode failure as the client's last error
\* before it returns it.
HandleRequestProcess_StoreDecodeError(c) ==
  /\ ~crashed
  /\ UNCHANGED <<listenVars, recVars, framerVars, callVars, remoteVars>>
  /\ pc[c] = "handle"
  /\ LET req == Decode(hr[c].frame) IN
     IF ~req.ok
     THEN /\ hr' = [hr EXCEPT ![c].ret = "error"]
          /\ pc' = [pc EXCEPT ![c] = "remove"]
          /\ endReason' = [endReason EXCEPT ![c] = "decode"]
          /\ lastError' = MapSet(lastError, c, ErrUnsupportedRequest)
          /\ UNCHANGED backendCalls
     ELSE \E b \in BackendResults :
            LET out == process(c, req, b) IN
            /\ backendCalls' = [backendCalls EXCEPT ![c] = Append(@, hr[c].rid)]
            /\ hr' = [hr EXCEPT ![c].req = req, ![c].backendErr = b.err,
                                 ![c].err = out.err, ![c].res = out.res,
                                 ![c].buffered = Buffered(lastError, c, req)]
            /\ pc' = [pc EXCEPT ![c] = IF out.err # NoErr THEN "store" ELSE "reset"]
            /\ UNCHANGED <<endReason, lastError>>
  /\ UNCHANGED <<streamLen, nRead, backendRemoved, removed, crashed>>

\* HandleRequest, lines 76-81: Decode, then process (the backend is called).
HandleRequestProcess(c) ==
  /\ ~crashed
  /\ UNCHANGED <<listenVars, recVars, framerVars, callVars, remoteVars>>
  /\ pc[c] = "handle"
  /\ LET req == Decode(hr[c].frame) IN
     IF ~req.ok
     THEN /\ hr' = [hr EXCEPT ![c].ret = "error"]
          /\ pc' = [pc EXCEPT ![c] = "remove"]
          /\ endReason' = [endReason EXCEPT ![c] = "decode"]
          /\ UNCHANGED backendCalls
     ELSE \E b \in BackendResults :
            LET out == process(c, req, b) IN
            /\ backendCalls' = [backendCalls EXCEPT ![c] = Append(@, hr[c].rid)]
            /\ hr' = [hr EXCEPT ![c].req = req, ![c].backendErr = b.err,
                                 ![c].err = out.err, ![c].res = out.res,
                                 ![c].buffered = Buffered(lastError, c, req)]
            /\ pc' = [pc EXCEPT ![c] = IF out.err # NoErr THEN "store" ELSE "reset"]
            /\ UNCHANGED endReason
  /\ UNCHANGED <<streamLen, nRead, lastError, backendRemoved, removed, crashed>>

\* A dispatcher without the early return of line 85: the error of a request
\* that expects no reply is stored and then reset like any other (the mutant
\* of HandleRequestStoreError).
HandleRequestStoreError_NoEarlyReturn(c) ==
  /\ ~crashed
  /\ UNCHANGED <<listenVars, recVars, framerVars, callVars, remoteVars>>
  /\ pc[c] = "store"
  /\ lastError' = MapSet(lastError, c, hr[c].err)
  /\ hr' = [hr EXCEPT ![c].res = IF hr[c].req.reply = "None" THEN @
                                 ELSE toErrorResponse(hr[c].err, hr[c].req.reply)]
  /\ pc' = [pc EXCEPT ![c] = "reset"]
  /\ UNCHANGED <<streamLen, nRead, backendCalls, backendRemoved, removed,
                 endReason, crashed>>

\* HandleRequest, lines 82-89: the error is stored; a request that expects no
\* reply returns here, any other has its response replaced by the error's.
HandleRequestStoreError(c) ==
  /\ ~crashed
  /\ UNCHANGED <<listenVars, recVars, framerVars, callVars, remoteVars>>
  /\ pc[c] = "store"
  /\ lastError' = MapSet(lastError, c, hr[c].err)
  /\ IF hr[c].req.reply = "None"
     THEN /\ hr' = [hr EXCEPT ![c].ret = "nil"]
          /\ pc' = [pc EXCEPT ![c] = "read"]
     ELSE /\ hr' = [hr EXCEPT ![c].res = toErrorResponse(hr[c].err, hr[c].req.reply)]
          /\ pc' = [pc EXCEPT ![c] = "reset"]
  /\ UNCHANGED <<streamLen, nRead, backendCalls, backendRemoved, removed,
                 endReason, crashed>>

\* HandleRequest, lines 91-98 up to the Write of Encode: the entry is reset
\* to nil; a request that expects no reply returns nil; otherwise the response
\* is encoded, which fails without writing, or the task goes on to write the
\* message to the client's connection (encode.go:44).
HandleRequestReply(c) ==
  /\ ~crashed
  /\ UNCHANGED <<listenVars, recVars, framerVars, callVars, remoteVars>>
  /\ pc[c] = "reset"
  /\ lastError' = MapSet(lastError, c, NoErr)
  /\ IF hr[c].req.reply = "None"
     THEN /\ hr' = [hr EXCEPT ![c].ret = "nil"]
          /\ pc' = [pc EXCEPT ![c] = "read"]
          /\ UNCHANGED endReason
     ELSE IF ~Encode(hr[c].res, hr[c].rid, hr[c].req.reply).ok
     THEN /\ hr' = [hr EXCEPT ![c].ret = "error"]
          /\ pc' = [pc EXCEPT ![c] = "remove"]
          /\ endReason' = [endReason EXCEPT ![c] = "encode"]
     ELSE /\ pc' = [pc EXCEPT ![c] = "write"]
          /\ UNCHANGED <<hr, endReason>>
  /\ UNCHANGED <<streamLen, nRead, backendCalls, backendRemoved, removed, crashed>>

\* Encode, lines 44-45, and HandleRequest's return: the Write to the
\* client's connection takes the message, or fails, and HandleRequest
\* returns what Encode returns.
HandleRequestWrite(c) ==
  /\ ~crashed
  /\ UNCHANGED <<listenVars, recVars, framerVars, callVars, remoteVars>>
  /\ pc[c] = "write"
  /\ \E written \in BOOLEAN :
       IF written
       THEN /\ hr' = [hr EXCEPT ![c].wrote =
                                  Encode(hr[c].res, hr[c].rid, hr[c].req.reply).msg,
                                ![c].ret = "nil"]
            /\ pc' = [pc EXCEPT ![c] = "read"]
            /\ UNCHANGED endReason
       ELSE /\ hr' = [hr EXCEPT ![c].ret = "error"]
            /\ pc' = [pc EXCEPT ![c] = "remove"]
            /\ endReason' = [endReason EXCEPT ![c] = "write"]
  /\ UNCHANGED <<streamLen, nRead, lastError, backendCalls, backendRemoved,
                 removed, crashed>>

\* A RemoveClient that resets the client's entry to nil instead of deleting
\* it (the mutant of RemoveClient).
RemoveClient_ResetEntry(c) ==
  /\ ~crashed
  /\ UNCHANGED <<listenVars, recVars, framerVars, callVars, remoteVars>>
  /\ pc[c] = "remove"
  /\ lastError' = MapSet(lastError, c, NoErr)
  /\ backendRemoved' = [backendRemoved EXCEPT ![c] = @ + 1]
  /\ \E r \in {"nil", "error"} :
       removed' = [removed EXCEPT ![c] = [backend |-> r, returned |-> r]]
  /\ pc' = [pc EXCEPT ![c] = "closed"]
  /\ UNCHANGED <<streamLen, nRead, hr, backendCalls, endReason, crashed>>

\* MongoEmulator.RemoveClient: the entry is deleted, the backend is told, and
\* what the backend returns is returned.
RemoveClient(c) ==
  /\ ~crashed
  /\ UNCHANGED <<listenVars, recVars, framerVars, callVars, remoteVars>>
  /\ pc[c] = "remove"
  /\ lastError' = MapDelete(lastError, c)
  /\ backendRemoved' = [backendRemoved EXCEPT ![c] = @ + 1]
  /\ \E r \in {"nil", "error"} :
       removed' = [removed EXCEPT ![c] = [backend |-> r, returned |-> r]]
  /\ pc' = [pc EXCEPT ![c] = "closed"]
  /\ UNCHANGED <<streamLen, nRead, hr, backendCalls, endReason, crashed>>

\* The statements that read or write emu.lastError: lines 83, 92 and 105.
AccessesMap(c) == pc[c] \in {"store", "reset", "remove"}

\* Two tasks are in the map at once.  The map is a plain Go map: the runtime
\* either lets both accesses through or stops the process with the fatal
\* error "concurrent map writes".
ConcurrentMapFault ==
  /\ ~crashed
  /\ UNCHANGED <<listenVars, recVars, framerVars, callVars, remoteVars>>
  /\ \E c, d \in Clients : c # d /\ AccessesMap(c) /\ AccessesMap(d)
  /\ crashed' = TRUE
  /\ UNCHANGED <<pc, streamLen, nRead, hr, lastError, backendCalls, backendRemoved,
                 removed, endReason>>

Next ==
  \/ \E c \in Clients : ReadFrame(c)
  \/ \E c \in Clients : ReadFails(c)
  \/ \E c \in Clients : HandleRequestProcess(c)
  \/ \E c \in Clients : HandleRequestStoreError(c)
  \/ \E c \in Clients : HandleRequestReply(c)
  \/ \E c \in Clients : HandleRequestWrite(c)
  \/ \E c \in Clients : RemoveClient(c)
  \/ ConcurrentMapFault

Spec == Init /\ [][Next]_vars

--------------------------------------------------------------------------
(* Claims about the dispatcher, checked under Spec.                        *)

\* HandleRequest has returned for c's latest frame and nothing came after.
Returned(c) == pc[c] \in {"read", "remove"} /\ hr[c].ret \in {"nil", "error"}

\* The request decoded, its processing failed and it expects no reply.
FailedNoReply(c) == hr[c].req.ok /\ hr[c].err # NoErr /\ hr[c].req.reply = "None"

\* C1: when processing of a decoded request fails and the request's reply
\* envelope is None, HandleRequest writes no bytes to the client, returns
\* success, and leaves the error stored in lastError[clientID].
C1_NoReplyErrorIsBuffered ==
  \A c \in Clients :
    (Returned(c) /\ FailedNoReply(c)) =>
      /\ hr[c].ret = "nil"
      /\ hr[c].wrote = NoBytes
      /\ c \in DOMAIN lastError
      /\ lastError[c] = hr[c].err

C1_Witness ==
  \E c \in Clients :
    /\ pc[c] = "read" /\ hr[c].ret = "nil" /\ FailedNoReply(c)
    /\ hr[c].frame.op = 2002
    /\ c \in DOMAIN lastError /\ lastError[c] = ErrInvalidCursor

\* The error text a reply carries ("" when its document carries none).
Reported(m) ==
  IF Len(m.docs) = 0 THEN ""
  ELSE IF "$err" \in DOMAIN m.docs[1] THEN m.docs[1]["$err"]
  ELSE IF "errmsg" \in DOMAIN m.docs[1] THEN m.docs[1]["errmsg"]
  ELSE ""

\* C2: after a request with envelope None has failed for a client, the next
\* getLastError command of that client observes that error: the error is
\* still the client's buffered lastError when the command is processed, and
\* the reply to the command reports it.  (Stated for the commands the backend
\* leaves to the dispatcher, and for replies that were written.)
C2_GetLastErrorReportsBufferedError ==
  \A c \in Clients :
    ( /\ Returned(c) /\ hr[c].ret = "nil" /\ hr[c].req.ok
      /\ hr[c].req.type = "command" /\ hr[c].req.cmd = "getLastError"
      /\ Is(hr[c].backendErr, ErrUnsupportedRequest)
      /\ hr[c].buffered \notin {"absent", ""} )
    => Reported(hr[c].wrote) = hr[c].buffered

\* C3: after HandleRequest returns for any decoded request of client c,
\* lastError[c] reflects the status of that request: the error if processing
\* failed, whatever the reply envelope, and nil if processing succeeded.
C3_LastErrorReflectsLastRequest ==
  \A c \in Clients :
    (Returned(c) /\ hr[c].req.ok) =>
      /\ c \in DOMAIN lastError
      /\ lastError[c] = hr[c].err

\* The request ids 1..n in order.
FirstIds(n) == [i \in 1..n |-> i]

\* C4 as claimed: a connection whose stream consists of N well-formed frames
\* has the backend invoked exactly N times, in arrival order, whatever the
\* backend returns (the socket itself not failing).
C4_BackendCalledForEveryFrame ==
  \A c \in Clients :
    (pc[c] \in {"remove", "closed"} /\ endReason[c] \notin {"decode", "ioerr", "write"})
      => backendCalls[c] = FirstIds(streamLen[c])

\* C4 as amended: the backend is invoked once per frame handed to the
\* dispatcher, in arrival order; every frame read and decoded has been
\* dispatched; and a connection that ends at the end of its stream has had
\* the backend invoked for all N frames.  (A response that cannot be encoded
\* ends the connection like a failed read or write does, and the frames after
\* it are never dispatched.)
C4_BackendCalledOncePerFrameInOrder ==
  \A c \in Clients :
    /\ backendCalls[c] = FirstIds(Len(backendCalls[c]))
    /\ Len(backendCalls[c]) <= nRead[c]
    /\ nRead[c] <= streamLen[c]
    /\ (pc[c] # "handle" /\ endReason[c] # "decode") => Len(backendCalls[c]) = nRead[c]
    /\ endReason[c] = "eof" => backendCalls[c] = FirstIds(streamLen[c])

C4_Witness ==
  \E c \in Clients :
    /\ pc[c] = "closed" /\ endReason[c] = "eof"
    /\ streamLen[c] = MaxFrames
    /\ backendCalls[c] = FirstIds(MaxFrames)
    /\ hr[c].err # NoErr

\* C7: after MongoEmulator.RemoveClient(c) the lastError map has no entry for
\* c, the entries of the other clients are what they were, and the backend's
\* RemoveClient has been invoked exactly once with c, its result returned.
C7_RemoveClientStep ==
  \A c \in Clients :
    (pc[c] = "remove" /\ pc'[c] = "closed") =>
      /\ c \notin DOMAIN lastError'
      /\ \A d \in Clients \ {c} :
           /\ (d \in DOMAIN lastError') = (d \in DOMAIN lastError)
           /\ d \in DOMAIN lastError => lastError'[d] = lastError[d]
      /\ backendRemoved' = [backendRemoved EXCEPT ![c] = @ + 1]
      /\ removed'[c].returned = removed'[c].backend

C7_RemoveClientPurgesOnlyItsClient ==
  /\ [](\A c \in Clients :
          /\ backendRemoved[c] <= 1
          /\ pc[c] = "closed" => (c \notin DOMAIN lastError /\ backendRemoved[c] = 1))
  /\ [][C7_RemoveClientStep]_vars

C7_Witness ==
  \E c, d \in Clients :
    /\ c # d
    /\ pc[c] = "closed" /\ c \notin DOMAIN lastError
    /\ hr[c].ret = "nil" /\ FailedNoReply(c)
    /\ removed[c].returned = "error"
    /\ d \in DOMAIN lastError /\ lastError[d] # NoErr

\* C9: accesses to the lastError map are guarded: no two connection tasks
\* are at a statement that reads or writes the map at the same time, and the
\* runtime never finds the map being written concurrently.
C9_MapAccessIsGuarded ==
  /\ \A c, d \in Clients : c # d => ~(AccessesMap(c) /\ AccessesMap(d))
  /\ ~crashed

--------------------------------------------------------------------------
(* ListenSpec: Server.Listen.  The accept loop starts one task per accepted *)
(* connection; a task registers its connection under the mutex, runs        *)
(* handleConn against the configured RequestHandler, tells the handler to   *)
(* remove the client and, in its deferred function, closes the connection,  *)
(* unregisters it under the mutex and leaves the wait group.  The shutdown  *)
(* goroutine waits for the cancellation signal, closes the listener and,    *)
(* under the mutex, closes and forgets every registered connection.         *)
(* sync.Mutex is not reentrant: Lock blocks while the mutex is held, also   *)
(* when the caller is the holder.                                           *)

OtherVars == <<emuVars, recVars, framerVars, callVars, remoteVars>>

\* Line 54 returns a connection and lines 60-61 start its task.
Accept(c) ==
  /\ listenPc = "accept" /\ listenerOpen
  /\ conn[c] = "none"
  /\ conn' = [conn EXCEPT ![c] = "open"]
  /\ wg' = wg + 1
  /\ tpc' = [tpc EXCEPT ![c] = "start"]
  /\ UNCHANGED <<ctxDone, listenerOpen, listenPc, shutPc, mu, activeConns, tEnd,
                 sends, removeCalls, OtherVars>>

\* Line 54 fails because the listener was closed: the loop is left (line 57).
AcceptClosed ==
  /\ listenPc = "accept" /\ ~listenerOpen
  /\ listenPc' = "wait"
  /\ UNCHANGED <<ctxDone, listenerOpen, shutPc, mu, activeConns, wg, conn, tpc,
                 tEnd, sends, removeCalls, OtherVars>>

\* Line 54 fails on an open listener (any other Accept error): the loop is
\* left all the same.
AcceptError ==
  /\ listenPc = "accept" /\ listenerOpen
  /\ listenPc' = "wait"
  /\ UNCHANGED <<ctxDone, listenerOpen, shutPc, mu, activeConns, wg, conn, tpc,
                 tEnd, sends, removeCalls, OtherVars>>

\* Lines 100-102: wg.Wait returns once the counter is zero; Listen returns.
ListenReturn ==
  /\ listenPc = "wait" /\ wg = 0
  /\ listenPc' = "returned"
  /\ UNCHANGED <<ctxDone, listenerOpen, shutPc, mu, activeConns, wg, conn, tpc,
                 tEnd, sends, removeCalls, OtherVars>>

\* The owner of ctx cancels it.
Cancel ==
  /\ ~ctxDone
  /\ ctxDone' = TRUE
  /\ UNCHANGED <<listenerOpen, listenPc, shutPc, mu, activeConns, wg, conn, tpc,
                 tEnd, sends, removeCalls, OtherVars>>

\* Lines 42-43: the shutdown goroutine sees the signal and closes the listener.
ShutdownWake ==
  /\ shutPc = "wait" /\ ctxDone
  /\ listenerOpen' = FALSE
  /\ shutPc' = "lock"
  /\ UNCHANGED <<ctxDone, listenPc, mu, activeConns, wg, conn, tpc, tEnd, sends,
                 removeCalls, OtherVars>>

\* Lines 44-49: with the mutex, every registered connection is closed and the
\* map is replaced by an empty one.
ShutdownCloseAll ==
  /\ shutPc = "lock" /\ mu = "free"
  /\ conn' = [c \in Clients |-> IF c \in activeConns THEN "closed" ELSE conn[c]]
  /\ activeConns' = {}
  /\ shutPc' = "done"
  /\ UNCHANGED <<ctxDone, listenerOpen, listenPc, mu, wg, tpc, tEnd, sends,
                 removeCalls, OtherVars>>

\* Line 71: the task takes the mutex.
TaskLock(c) ==
  /\ tpc[c] = "start" /\ mu = "free"
  /\ mu' = c
  /\ tpc' = [tpc EXCEPT ![c] = "select"]
  /\ UNCHANGED <<ctxDone, listenerOpen, listenPc, shutPc, activeConns, wg, conn,
                 tEnd, sends, removeCalls, OtherVars>>

\* Lines 73-76: with the signal fired the task returns (line 75), the mutex
\* still locked; otherwise it goes on to register the connection.
TaskSelect(c) ==
  /\ tpc[c] = "select"
  /\ IF ctxDone
     THEN /\ tpc' = [tpc EXCEPT ![c] = "deferClose"]
          /\ tEnd' = [tEnd EXCEPT ![c] = "cancelled"]
     ELSE /\ tpc' = [tpc EXCEPT ![c] = "register"]
          /\ UNCHANGED tEnd
  /\ UNCHANGED <<ctxDone, listenerOpen, listenPc, shutPc, mu, activeConns, wg,
                 conn, sends, removeCalls, OtherVars>>

\* Lines 77-79: the connection is registered and the mutex released.
TaskRegister(c) ==
  /\ tpc[c] = "register"
  /\ activeConns' = activeConns \cup {c}
  /\ mu' = "free"
  /\ tpc' = [tpc EXCEPT ![c] = "read"]
  /\ UNCHANGED <<ctxDone, listenerOpen, listenPc, shutPc, wg, conn, tEnd, sends,
                 removeCalls, OtherVars>>

\* handleConn, line 133: bufferNextRequest returns the client's next frame.
TaskRead(c) ==
  /\ tpc[c] = "read" /\ conn[c] = "open"
  /\ sends[c] < MaxSends
  /\ sends' = [sends EXCEPT ![c] = @ + 1]
  /\ tpc' = [tpc EXCEPT ![c] = "handle"]
  /\ UNCHANGED <<ctxDone, listenerOpen, listenPc, shutPc, mu, activeConns, wg,
                 conn, tEnd, removeCalls, OtherVars>>

\* handleConn, lines 133-135: bufferNextRequest fails on what the client did:
\* it closed its end (io.EOF) or sent a header with a message length under 16.
TaskReadFails(c) ==
  /\ tpc[c] = "read" /\ conn[c] = "open"
  /\ \E why \in {"eof", "framing"} : tEnd' = [tEnd EXCEPT ![c] = why]
  /\ tpc' = [tpc EXCEPT ![c] = "remove"]
  /\ UNCHANGED <<ctxDone, listenerOpen, listenPc, shutPc, mu, activeConns, wg,
                 conn, sends, removeCalls, OtherVars>>

\* handleConn, lines 133-135: the read fails because the server closed the
\* connection (the shutdown goroutine did).
TaskReadClosed(c) ==
  /\ tpc[c] = "read" /\ conn[c] = "closed"
  /\ tEnd' = [tEnd EXCEPT ![c] = "closed"]
  /\ tpc' = [tpc EXCEPT ![c] = "remove"]
  /\ UNCHANGED <<ctxDone, listenerOpen, listenPc, shutPc, mu, activeConns, wg,
                 conn, sends, removeCalls, OtherVars>>

\* handleConn, lines 137-139: reqHandler.HandleRequest returns; nil continues
\* the loop, an error (a frame that does not decode, a reply that cannot be
\* written) ends it.
TaskHandle(c) ==
  /\ tpc[c] = "handle"
  /\ \E ok \in BOOLEAN :
       IF ok THEN /\ tpc' = [tpc EXCEPT ![c] = "read"]
                  /\ UNCHANGED tEnd
             ELSE /\ tpc' = [tpc EXCEPT ![c] = "remove"]
                  /\ tEnd' = [tEnd EXCEPT ![c] = "handler"]
  /\ UNCHANGED <<ctxDone, listenerOpen, listenPc, shutPc, mu, activeConns, wg,
                 conn, sends, removeCalls, OtherVars>>


\* A task that does not tell the handler when the client simply disconnected
\* (the mutant of TaskRemoveClient).
TaskRemoveClient_SkipOnEOF(c) ==
  /\ tpc[c] = "remove"
  /\ removeCalls' = [removeCalls EXCEPT ![c] = IF tEnd[c] = "eof" THEN @ ELSE @ + 1]
  /\ tpc' = [tpc EXCEPT ![c] = "deferClose"]
  /\ UNCHANGED <<ctxDone, listenerOpen, listenPc, shutPc, mu, activeConns, wg,
                 conn, tEnd, sends, OtherVars>>

\* Lines 86-96: handleConn has returned (it only returns errors), and the
\* handler's RemoveClient is called with the client id; the task returns.
TaskRemoveClient(c) ==
  /\ tpc[c] = "remove"
  /\ removeCalls' = [removeCalls EXCEPT ![c] = @ + 1]
  /\ tpc' = [tpc EXCEPT ![c] = "deferClose"]
  /\ UNCHANGED <<ctxDone, listenerOpen, listenPc, shutPc, mu, activeConns, wg,
                 conn, tEnd, sends, OtherVars>>

\* The deferred function, line 64: the connection is closed.
TaskDeferClose(c) ==
  /\ tpc[c] = "deferClose"
  /\ conn' = [conn EXCEPT ![c] = "closed"]
  /\ tpc' = [tpc EXCEPT ![c] = "deferLock"]
  /\ UNCHANGED <<ctxDone, listenerOpen, listenPc, shutPc, mu, activeConns, wg,
                 tEnd, sends, removeCalls, OtherVars>>

\* The deferred function, lines 65-67: with the mutex, the connection is
\* unregistered, and the mutex is released.
TaskDeferUnregister(c) ==
  /\ tpc[c] = "deferLock" /\ mu = "free"
  /\ activeConns' = activeConns \ {c}
  /\ tpc' = [tpc EXCEPT ![c] = "deferDone"]
  /\ UNCHANGED <<ctxDone, listenerOpen, listenPc, shutPc, mu, conn, wg, tEnd, sends,
                 removeCalls, OtherVars>>

\* The deferred function, line 68: the task leaves the wait group and is
\* finished.
TaskDeferDone(c) ==
  /\ tpc[c] = "deferDone"
  /\ wg' = wg - 1
  /\ tpc' = [tpc EXCEPT ![c] = "done"]
  /\ UNCHANGED <<ctxDone, listenerOpen, listenPc, shutPc, mu, activeConns, conn, tEnd,
                 sends, removeCalls, OtherVars>>

ListenNext ==
  \/ \E c \in Clients : Accept(c)
  \/ AcceptClosed
  \/ AcceptError
  \/ ListenReturn
  \/ Cancel
  \/ ShutdownWake
  \/ ShutdownCloseAll
  \/ \E c \in Clients : TaskLock(c)
  \/ \E c \in Clients : TaskSelect(c)
  \/ \E c \in Clients : TaskRegister(c)
  \/ \E c \in Clients : TaskRead(c)
  \/ \E c \in Clients : TaskReadFails(c)
  \/ \E c \in Clients : TaskReadClosed(c)
  \/ \E c \in Clients : TaskHandle(c)
  \/ \E c \in Clients : TaskRemoveClient(c)
  \/ \E c \in Clients : TaskDeferClose(c)
  \/ \E c \in Clients : TaskDeferUnregister(c)
  \/ \E c \in Clients : TaskDeferDone(c)

ListenStart ==
  /\ EmulatorInit([c \in Clients |-> 0])
  /\ ListenInit
  /\ RecorderInit
  /\ FramerInit
  /\ CallInit
  /\ RemoteInit

ListenSpec == ListenStart /\ [][ListenNext]_vars

\* What the scheduler guarantees: a goroutine that can take a step takes it,
\* a goroutine waiting for the mutex gets it if it is released often enough
\* (sync.Mutex hands over to starving waiters), a failed Accept or a read on a
\* closed connection returns, and a handler call returns.  Nothing is assumed
\* of the clients (connecting, sending, disconnecting) nor of the owner of ctx.
ListenFairSpec ==
  /\ ListenSpec
  /\ WF_vars(AcceptClosed)
  /\ WF_vars(ListenReturn)
  /\ WF_vars(ShutdownWake)
  /\ SF_vars(ShutdownCloseAll)
  /\ \A c \in Clients :
       /\ SF_vars(TaskLock(c))
       /\ WF_vars(TaskSelect(c))
       /\ WF_vars(TaskRegister(c))
       /\ WF_vars(TaskReadClosed(c))
       /\ WF_vars(TaskHandle(c))
       /\ WF_vars(TaskRemoveClient(c))
       /\ WF_vars(TaskDeferClose(c))
       /\ SF_vars(TaskDeferUnregister(c))
       /\ WF_vars(TaskDeferDone(c))

--------------------------------------------------------------------------
(* Claims about Server.Listen.                                             *)

\* The task of c is inside handleConn.
Served(c) == tpc[c] \in {"read", "handle"}

\* The task of c has left the body of its function (lines 71-96).
LeftBody(c) == tpc[c] \in {"deferClose", "deferLock", "deferDone", "done"}

\* The connection loop of c's task ended for one of the claim's reasons: the
\* client's EOF, a framing error, a handler error (a frame that does not
\* decode, a reply that cannot be written), or the server closing the
\* connection on cancellation.
LoopEnded(c) == tEnd[c] \in {"eof", "framing", "handler", "closed"}

\* C5: for every accepted connection, when its task ends, for whatever
\* reason, the handler's RemoveClient has been invoked exactly once with the
\* connection's client id: it is never invoked twice, it is not invoked
\* before the connection loop has ended, it has been invoked once when the
\* loop has ended and the task has gone on to its deferred function, and so
\* it has for every task that has finished (line 68 has run).
C5_RemoveClientOnceWhenTaskEnds ==
  \A c \in Clients :
    /\ removeCalls[c] <= 1
    /\ tpc[c] \in {"none", "start", "select", "register", "read", "handle", "remove"}
         => removeCalls[c] = 0
    /\ (LeftBody(c) /\ LoopEnded(c)) => removeCalls[c] = 1
    /\ tpc[c] = "done" => (LoopEnded(c) /\ removeCalls[c] = 1)

\* Two tasks have finished, one whose connection the server closed on
\* cancellation and one whose client disconnected.
C5_Witness ==
  \E c, d \in Clients :
    /\ tpc[c] = "done" /\ tEnd[c] = "closed" /\ removeCalls[c] = 1
    /\ tpc[d] = "done" /\ tEnd[d] = "eof" /\ removeCalls[d] = 1

\* C6: once the cancellation signal has fired, Listen eventually returns; and
\* Listen returns only after every task it started has finished.
C6_ListenReturnsAfterCancellation ==
  /\ ctxDone ~> (listenPc = "returned")
  /\ [](listenPc = "returned" => \A c \in Clients : tpc[c] \in {"none", "done"})

\* The first sentence of C8 alone: once the signal has fired, every
\* connection that is in the registry gets closed, and the registry empty.
RegistryClosedAfterCancellation ==
  /\ \A c \in Clients : (ctxDone /\ c \in activeConns) ~> (conn[c] = "closed")
  /\ ctxDone ~> (activeConns = {})

\* C8: when cancellation fires, every connection in the registry is closed
\* and the registry is emptied (and the run of the shutdown handler is what closes
\* the registered connections and leaves the registry empty); no connection is
\* added to the registry after cancellation has fired (a task that checks the
\* signal after it fired does not register, and the registry stays empty once
\* the shutdown handler has run); and after the shutdown handler has run, no
\* accepted connection is both open and being served.
C8_CancellationClosesRegistry ==
  /\ RegistryClosedAfterCancellation
  /\ [][(shutPc = "lock" /\ shutPc' = "done") =>
          (activeConns' = {} /\ \A c \in activeConns : conn'[c] = "closed")]_vars
  /\ [][\A c \in Clients : (tpc[c] = "select" /\ ctxDone) => tpc'[c] # "register"]_vars
  /\ [](shutPc = "done" => activeConns = {})
  /\ [](shutPc = "done" => \A c \in Clients : ~(conn[c] = "open" /\ Served(c)))

--------------------------------------------------------------------------
(* RecorderSpec: connections call Recorder.HandleRequest concurrently.  The *)
(* n-th request of connection c is <<c, n>>; what reaches a sink or a       *)
(* buffer is kept as chunks, each naming the request it was written for and *)
(* the requests its bytes come from.  A write to a sink or to the client    *)
(* can fail, and a payload write can fall short; the call then returns the  *)
(* error (the deferred Unlock runs) and its connection is closed.           *)

RecOtherVars == <<emuVars, listenVars, framerVars, callVars, remoteVars>>

\* The request the call of c is about.
Current(c) == <<c, calls[c]>>

\* A chunk written for request id: its 4-byte length or its payload (whole
\* or cut short), the payload's bytes being those of the requests in from.
Chunk(id, part, whole, from) == [id |-> id, part |-> part, whole |-> whole, from |-> from]

\* The requests whose bytes a buffer holds.
Owners(buf) == {buf[i] : i \in DOMAIN buf}

\* The bytes of request id, the argument r of its call: the requests of a
\* connection differ in length and content from each other and from the
\* other connection's.
ReqBytes(id) ==
  [i \in 1..(id[2] + (IF id[1] = "c1" THEN 0 ELSE MaxCalls)) |->
     (IF id[1] = "c1" THEN 10 ELSE 20) + i]

\* The bytes the wrapped handler writes when it replies to request id.
ResBytes(id) ==
  [i \in 1..(id[2] + 1) |-> (IF id[1] = "c1" THEN 100 ELSE 200) + i]

\* The bytes in the buffer: the replies written to it, one after the other.
RECURSIVE BufBytes(_)
BufBytes(buf) ==
  IF buf = << >> THEN << >> ELSE ResBytes(Head(buf)) \o BufBytes(Tail(buf))

\* binary.Write(w, binary.LittleEndian, &n) of an int32 n: four bytes, the
\* least significant first (two's complement for a negative n).
LE32(n) ==
  <<n % 256, (n \div 256) % 256, (n \div 65536) % 256, (n \div 16777216) % 256>>

\* What a write that falls short leaves behind: not all of b.
CutShort(b) == IF b = << >> THEN << >> ELSE SubSeq(b, 1, Len(b) - 1)

\* A write of bytes b, made for request id, to one of "reqStream", "resBuf",
\* "resStream" and "client".
Wrote(id, to, b) == [id |-> id, to |-> to, bytes |-> b]

\* The call returns err: the deferred Unlock releases the mutex, handleConn
\* returns and the connection makes no further call.
RecFail(c) ==
  /\ rpc' = [rpc EXCEPT ![c] = "failed"]
  /\ recMu' = "free"

\* A recorder that does not wait for the mutex (the mutant of RecLock).
RecLock_NoWait(c) ==
  /\ rpc[c] = "idle" /\ calls[c] < MaxCalls
  /\ recMu' = c
  /\ calls' = [calls EXCEPT ![c] = @ + 1]
  /\ rpc' = [rpc EXCEPT ![c] = "reqLen"]
  /\ UNCHANGED <<reqStream, resStream, resBuf, upstream, wire, RecOtherVars>>

\* Line 262: the call takes the mutex.
RecLock(c) ==
  /\ rpc[c] = "idle" /\ calls[c] < MaxCalls
  /\ recMu = "free"
  /\ recMu' = c
  /\ calls' = [calls EXCEPT ![c] = @ + 1]
  /\ rpc' = [rpc EXCEPT ![c] = "reqLen"]
  /\ UNCHANGED <<reqStream, resStream, resBuf, upstream, wire, RecOtherVars>>

\* Lines 266-269: the request's length goes to the request sink.
RecWriteReqLen(c) ==
  /\ rpc[c] = "reqLen"
  /\ \E ok \in BOOLEAN :
       IF ok THEN /\ reqStream' = Append(reqStream, Chunk(Current(c), "len", TRUE, {}))
                  /\ wire' = Append(wire, Wrote(Current(c), "reqStream",
                                                LE32(Len(ReqBytes(Current(c))))))
                  /\ rpc' = [rpc EXCEPT ![c] = "req"]
                  /\ UNCHANGED recMu
             ELSE /\ RecFail(c)
                  /\ UNCHANGED <<reqStream, wire>>
  /\ UNCHANGED <<calls, resStream, resBuf, upstream, RecOtherVars>>

\* Lines 270-275: the request's bytes go to the request sink.
RecWriteReq(c) ==
  /\ rpc[c] = "req"
  /\ \E out \in {"ok", "short", "fail"} :
       /\ reqStream' = IF out = "fail" THEN reqStream
                       ELSE Append(reqStream,
                                   Chunk(Current(c), "payload", out = "ok", {Current(c)}))
       /\ wire' = CASE out = "ok" ->
                         Append(wire, Wrote(Current(c), "reqStream", ReqBytes(Current(c))))
                     [] out = "short" ->
                         Append(wire, Wrote(Current(c), "reqStream",
                                            CutShort(ReqBytes(Current(c)))))
                     [] OTHER -> wire
       /\ IF out = "ok" THEN /\ rpc' = [rpc EXCEPT ![c] = "reset"]
                             /\ UNCHANGED recMu
                        ELSE RecFail(c)
  /\ UNCHANGED <<calls, resStream, resBuf, upstream, RecOtherVars>>

\* Line 278: the shared buffer is emptied.
RecReset(c) ==
  /\ rpc[c] = "reset"
  /\ resBuf' = << >>
  /\ rpc' = [rpc EXCEPT ![c] = "wrapped"]
  /\ UNCHANGED <<calls, recMu, reqStream, resStream, upstream, wire, RecOtherVars>>

\* Lines 279-281: the wrapped handler writes its reply for the request, if
\* it has one, to the buffer, and returns nil or an error.
RecWrapped(c) ==
  /\ rpc[c] = "wrapped"
  /\ \E out \in {"reply", "noreply", "error"} :
       /\ resBuf' = IF out = "reply" THEN Append(resBuf, Current(c)) ELSE resBuf
       /\ wire' = Append(wire, Wrote(Current(c), "resBuf",
                                     IF out = "reply" THEN ResBytes(Current(c)) ELSE << >>))
       /\ IF out = "error" THEN RecFail(c)
                           ELSE /\ rpc' = [rpc EXCEPT ![c] = "resLen"]
                                /\ UNCHANGED recMu
  /\ UNCHANGED <<calls, reqStream, resStream, upstream, RecOtherVars>>

\* A recorder that forgets to take the response's length and writes rLen as
\* it stands, the request's length (the mutant of RecWriteResLen).
RecWriteResLen_StaleLength(c) ==
  /\ rpc[c] = "resLen"
  /\ \E ok \in BOOLEAN :
       IF ok THEN /\ resStream' = Append(resStream, Chunk(Current(c), "len", TRUE, {}))
                  /\ wire' = Append(wire, Wrote(Current(c), "resStream",
                                                LE32(Len(ReqBytes(Current(c))))))
                  /\ rpc' = [rpc EXCEPT ![c] = "res"]
                  /\ UNCHANGED recMu
             ELSE /\ RecFail(c)
                  /\ UNCHANGED <<resStream, wire>>
  /\ UNCHANGED <<calls, reqStream, resBuf, upstream, RecOtherVars>>

\* Lines 284-288: the length of the buffered response goes to the response sink.
RecWriteResLen(c) ==
  /\ rpc[c] = "resLen"
  /\ \E ok \in BOOLEAN :
       IF ok THEN /\ resStream' = Append(resStream, Chunk(Current(c), "len", TRUE, {}))
                  /\ wire' = Append(wire, Wrote(Current(c), "resStream",
                                                LE32(Len(BufBytes(resBuf)))))
                  /\ rpc' = [rpc EXCEPT ![c] = "res"]
                  /\ UNCHANGED recMu
             ELSE /\ RecFail(c)
                  /\ UNCHANGED <<resStream, wire>>
  /\ UNCHANGED <<calls, reqStream, resBuf, upstream, RecOtherVars>>

\* Lines 289-294: the buffered response goes to the response sink.
RecWriteRes(c) ==
  /\ rpc[c] = "res"
  /\ \E out \in {"ok", "short", "fail"} :
       /\ resStream' = IF out = "fail" THEN resStream
                       ELSE Append(resStream,
                                   Chunk(Current(c), "payload", out = "ok", Owners(resBuf)))
       /\ wire' = CASE out = "ok" ->
                         Append(wire, Wrote(Current(c), "resStream", BufBytes(resBuf)))
                     [] out = "short" ->
                         Append(wire, Wrote(Current(c), "resStream",
                                            CutShort(BufBytes(resBuf))))
                     [] OTHER -> wire
       /\ IF out = "ok" THEN /\ rpc' = [rpc EXCEPT ![c] = "forward"]
                             /\ UNCHANGED recMu
                        ELSE RecFail(c)
  /\ UNCHANGED <<calls, reqStream, resBuf, upstream, RecOtherVars>>

\* Lines 296-303: the buffered response goes to the client, whole, in part
\* (an error is returned, and what was written has reached the client) or not
\* at all; the call returns and the deferred Unlock releases the mutex.
RecForward(c) ==
  /\ rpc[c] = "forward"
  /\ \E out \in {"ok", "short", "fail"} :
       /\ out = "short" => BufBytes(resBuf) # << >>
       /\ upstream' = IF out = "fail" THEN upstream
                      ELSE [upstream EXCEPT ![c] = Append(@, Owners(resBuf))]
       /\ wire' = CASE out = "ok" ->
                         Append(wire, Wrote(Current(c), "client", BufBytes(resBuf)))
                     [] out = "short" ->
                         Append(wire, Wrote(Current(c), "client",
                                            CutShort(BufBytes(resBuf))))
                     [] OTHER -> wire
       /\ IF out = "ok" THEN /\ rpc' = [rpc EXCEPT ![c] = "idle"]
                             /\ recMu' = "free"
                        ELSE RecFail(c)
  /\ UNCHANGED <<calls, reqStream, resStream, resBuf, RecOtherVars>>

RecorderNext ==
  \/ \E c \in Clients : RecLock(c)
  \/ \E c \in Clients : RecWriteReqLen(c)
  \/ \E c \in Clients : RecWriteReq(c)
  \/ \E c \in Clients : RecReset(c)
  \/ \E c \in Clients : RecWrapped(c)
  \/ \E c \in Clients : RecWriteResLen(c)
  \/ \E c \in Clients : RecWriteRes(c)
  \/ \E c \in Clients : RecForward(c)

RecorderStart ==
  /\ EmulatorInit([c \in Clients |-> 0])
  /\ ListenInit
  /\ RecorderInit
  /\ FramerInit
  /\ CallInit
  /\ RemoteInit

RecorderSpec == RecorderStart /\ [][RecorderNext]_vars

--------------------------------------------------------------------------
(* The claim about the Recorder, checked under RecorderSpec.               *)

\* The call of c is between Lock and Unlock, in its write sequence.
InWriteSequence(c) ==
  rpc[c] \in {"reqLen", "req", "reset", "wrapped", "resLen", "res", "forward"}

\* A sink holds whole records, or records cut by a failed write, never bytes
\* of one record inside another: a payload directly follows its own length,
\* the chunks of a request are not separated by another request's, and a
\* payload holds bytes of its own request only.
NotInterleaved(sink) ==
  /\ \A i \in DOMAIN sink :
       /\ sink[i].from \subseteq {sink[i].id}
       /\ sink[i].part = "payload" =>
            /\ i > 1
            /\ sink[i - 1] = Chunk(sink[i].id, "len", TRUE, {})
  /\ \A i, j, k \in DOMAIN sink :
       (i < j /\ j < k /\ sink[i].id = sink[k].id) => sink[j].id = sink[i].id

\* C10: under any interleaving of Recorder.HandleRequest calls, the whole
\* write sequence of a call runs under the mutex; no record of the request
\* sink or of the response sink is interleaved with bytes of another record;
\* and the shared buffer never holds bytes of two requests at once (what is
\* forwarded to a client is its own request's response).
C10_RecorderWritesAreSerialized ==
  /\ \A c \in Clients : InWriteSequence(c) => recMu = c
  /\ NotInterleaved(reqStream)
  /\ NotInterleaved(resStream)
  /\ Cardinality(Owners(resBuf)) <= 1
  /\ \A c \in Clients : InWriteSequence(c) /\ rpc[c] \in {"resLen", "res", "forward"}
       => Owners(resBuf) \subseteq {Current(c)}
  /\ \A c \in Clients : \A i \in DOMAIN upstream[c] : upstream[c][i] \subseteq {<<c, i>>}

C10_Witness ==
  \E c, d \in Clients :
    /\ c # d
    /\ rpc[c] = "res" /\ recMu = c /\ resBuf = <<Current(c)>>
    /\ rpc[d] = "idle" /\ calls[d] = 1 /\ calls[d] < MaxCalls
    /\ Len(reqStream) = 4 /\ reqStream[1].id = <<d, 1>> /\ reqStream[3].id = <<c, 1>>
    /\ Len(resStream) = 3 /\ resStream[2].from = {<<d, 1>>}
    /\ upstream[d] = <<{<<d, 1>>}>>

\* The writes made for request id, in the order they were made.
WritesOf(id) == SelectSeq(wire, LAMBDA e : e.id = id)

\* Where the writes of one call go, in the order the claim gives.
StepOrder == <<"reqStream", "reqStream", "resBuf", "resStream", "resStream", "client">>

\* The writes of a successful call whose wrapped handler put b in the buffer.
SuccessfulWrites(id, b) ==
  << Wrote(id, "reqStream", LE32(Len(ReqBytes(id)))),
     Wrote(id, "reqStream", ReqBytes(id)),
     Wrote(id, "resBuf", b),
     Wrote(id, "resStream", LE32(Len(b))),
     Wrote(id, "resStream", b),
     Wrote(id, "client", b) >>

\* HandleRequest has returned nil for the n-th call of c (a call that returns
\* an error is the connection's last).
HandledSuccessfully(c, n) == n < calls[c] \/ (n = calls[c] /\ rpc[c] = "idle")

\* C11: for each request the Recorder handles successfully the steps happen
\* in this order: the request record (the little-endian int32 length of the
\* request, then the request's bytes) goes to the request sink, then the
\* wrapped handler is invoked into the buffer, then the response record (the
\* int32 length L, then the L buffered bytes) goes to the response sink, and
\* only then the same L bytes go to the client.  The writes of a call that
\* fails are the first of these, in the same order.
C11_RecorderStepsInOrder ==
  \A c \in Clients : \A n \in 1..calls[c] :
    LET w == WritesOf(<<c, n>>) IN
    /\ Len(w) <= Len(StepOrder)
    /\ \A i \in DOMAIN w : w[i].to = StepOrder[i]
    /\ HandledSuccessfully(c, n) =>
         /\ Len(w) = Len(StepOrder)
         /\ w = SuccessfulWrites(<<c, n>>, w[3].bytes)

C11_Witness ==
  \E c, d \in Clients :
    /\ c # d
    /\ calls[c] = 2 /\ rpc[c] = "idle"
    /\ WritesOf(<<c, 1>>)[3].bytes = << >>
    /\ WritesOf(<<c, 2>>)[6].bytes = ResBytes(<<c, 2>>)
    /\ calls[d] = 1 /\ rpc[d] = "idle"
    /\ wire[7].id = <<d, 1>> /\ wire[13].id = <<c, 2>>


--------------------------------------------------------------------------
(* proxy.Server's framer: handleConn and bufferNextRequest, byte for byte. *)
(* A byte string is a sequence of runs [v, n] (n copies of the byte v, no  *)
(* two neighbouring runs with the same v), so that a payload of tens of    *)
(* millions of bytes is one run.                                           *)
--------------------------------------------------------------------------

\* The pieces of one client's stream.
MaxPieces == 2

\* The length of a request header, the 16 of bufferNextRequest.
HeaderSize == 16

\* maxMessageSizeBytes, the limit the server announces in its isMaster reply.
MaxMessageSize == 48000000

Run(v, n) == [v |-> v, n |-> n]

\* a followed by b.
Cat(a, b) ==
  IF a = << >> THEN b
  ELSE IF b = << >> THEN a
  ELSE IF a[Len(a)].v = b[1].v
    THEN SubSeq(a, 1, Len(a) - 1) \o <<Run(b[1].v, a[Len(a)].n + b[1].n)>> \o Tail(b)
    ELSE a \o b

RECURSIVE Runs(_)
Runs(bytes) ==
  IF bytes = << >> THEN << >> ELSE Cat(<<Run(Head(bytes), 1)>>, Runs(Tail(bytes)))

RECURSIVE Total(_)
Total(rs) == IF rs = << >> THEN 0 ELSE Head(rs).n + Total(Tail(rs))

\* The first k bytes of rs (all of rs when it is shorter).
RECURSIVE Take(_, _)
Take(rs, k) ==
  IF k = 0 \/ rs = << >> THEN << >>
  ELSE IF Head(rs).n <= k THEN <<Head(rs)>> \o Take(Tail(rs), k - Head(rs).n)
  ELSE <<Run(Head(rs).v, k)>>

\* rs without its first k bytes.
RECURSIVE Drop(_, _)
Drop(rs, k) ==
  IF k = 0 \/ rs = << >> THEN rs
  ELSE IF Head(rs).n <= k THEN Drop(Tail(rs), k - Head(rs).n)
  ELSE <<Run(Head(rs).v, Head(rs).n - k)>> \o Tail(rs)

\* The i-th byte of rs, 1 <= i <= Total(rs).
RECURSIVE ByteAt(_, _)
ByteAt(rs, i) ==
  IF i <= Head(rs).n THEN Head(rs).v ELSE ByteAt(Tail(rs), i - Head(rs).n)

\* binary.LittleEndian.Uint32 of the first four bytes.  The streams below keep
\* the fourth byte under 128, so the value is below 2^31.
Uint32LE(rs) ==
  ByteAt(rs, 1) + 256 * ByteAt(rs, 2) + 65536 * ByteAt(rs, 3) + 16777216 * ByteAt(rs, 4)

\* Framer errors: the text of xerrors.Errorf, the error it wraps with %w
\* ("" when it wraps none) and the length it prints with %d.
FramerErr(msg, cause, len) == [msg |-> msg, cause |-> cause, len |-> len]
NoFramerErr == FramerErr("", "", 0)
EOF == "EOF"
ReadError == "read: connection reset by peer"

\* xerrors.Is(err, io.EOF): the error is io.EOF or wraps it.
IsEOF(err) == err.cause = EOF

\* io.CopyN(b, r, n): appends up to n bytes of r to b; when r ends before n
\* bytes it keeps what it copied and returns io.EOF, or the reader's error.
CopyN(b, r, end, n) ==
  IF Total(r) >= n
    THEN [buf |-> Cat(b, Take(r, n)), rest |-> Drop(r, n), n |-> n, err |-> ""]
    ELSE [buf |-> Cat(b, r), rest |-> << >>, n |-> Total(r),
          err |-> IF end = "eof" THEN EOF ELSE ReadError]

\* bufferNextRequest without line 145: the buffer keeps the previous frame.
bufferNextRequest_NoReset(r, end, b) ==
  LET h == CopyN(b, r, end, HeaderSize) IN
  IF h.err # ""
    THEN [buf |-> h.buf, rest |-> h.rest,
          err |-> FramerErr("unable to read next request header", h.err, 0)]
  ELSE LET reqLen == Uint32LE(h.buf) IN
  IF reqLen < HeaderSize
    THEN [buf |-> h.buf, rest |-> h.rest,
          err |-> FramerErr("request header specifies invalid message length", "", reqLen)]
  ELSE LET remaining == reqLen - HeaderSize
           p == CopyN(h.buf, h.rest, end, remaining) IN
  IF p.err # ""
    THEN [buf |-> p.buf, rest |-> p.rest,
          err |-> FramerErr("unable to read remainder of request payload", p.err, 0)]
    ELSE [buf |-> p.buf, rest |-> p.rest, err |-> NoFramerErr]

\* bufferNextRequest(r, b): r is the unread stream and how it ends.  The
\* branches "n != 16" and "n != remaining" cannot be taken: io.CopyN returns
\* an error whenever it copied fewer bytes than asked.
bufferNextRequest(r, end, b) ==
  LET h == CopyN(<< >>, r, end, HeaderSize) IN
  IF h.err # ""
    THEN [buf |-> h.buf, rest |-> h.rest,
          err |-> FramerErr("unable to read next request header", h.err, 0)]
  ELSE LET reqLen == Uint32LE(h.buf) IN
  IF reqLen < HeaderSize
    THEN [buf |-> h.buf, rest |-> h.rest,
          err |-> FramerErr("request header specifies invalid message length", "", reqLen)]
  ELSE LET remaining == reqLen - HeaderSize
           p == CopyN(h.buf, h.rest, end, remaining) IN
  IF p.err # ""
    THEN [buf |-> p.buf, rest |-> p.rest,
          err |-> FramerErr("unable to read remainder of request payload", p.err, 0)]
    ELSE [buf |-> p.buf, rest |-> p.rest, err |-> NoFramerErr]

\* What a client may send in one go: the messageLength its header announces,
\* how many of the 16 header bytes it sends and how many payload bytes.
Piece(len, hdr, pay) == [len |-> len, hdr |-> hdr, pay |-> pay]
Pieces ==
  { Piece(HeaderSize, HeaderSize, 0),                    \* a header, no payload
    Piece(HeaderSize + 2, HeaderSize, 2),                \* a frame with 2 payload bytes
    Piece(MaxMessageSize, HeaderSize, MaxMessageSize - HeaderSize),
    Piece(MaxMessageSize + 1, HeaderSize, MaxMessageSize + 1 - HeaderSize),
    Piece(4, HeaderSize, 0),                             \* announces 4 bytes
    Piece(HeaderSize - 1, HeaderSize, 0),                \* announces 15 bytes
    Piece(HeaderSize + 2, 7, 0),                         \* 7 bytes of a header
    Piece(HeaderSize + 2, HeaderSize, 1) }               \* 1 payload byte of 2

\* The bytes of the piece sent at position pos: the header's last 12 bytes are
\* 100 + pos and the payload's bytes 200 + pos.
PieceBytes(piece, pos) ==
  Cat(Take(Cat(Runs(LE32(piece.len)), <<Run(100 + pos, HeaderSize - 4)>>), piece.hdr),
      IF piece.pay = 0 THEN << >> ELSE <<Run(200 + pos, piece.pay)>>)

RECURSIVE StreamFrom(_, _)
StreamFrom(pcs, pos) ==
  IF pcs = << >> THEN << >>
  ELSE Cat(PieceBytes(Head(pcs), pos), StreamFrom(Tail(pcs), pos + 1))

PieceSeqs == UNION { [1..k -> Pieces] : k \in 0..MaxPieces }

\* A client connects, sends its bytes and closes or loses the connection;
\* handleConn starts with an empty reqBuffer (line 131).
FramerOpen ==
  /\ fpc = "idle"
  /\ \E pcs \in PieceSeqs, end \in {"eof", "ioerr"} :
       /\ fstream' = StreamFrom(pcs, 1)
       /\ fend' = end
  /\ fpc' = "read"
  /\ UNCHANGED <<fbuf, fbefore, ferr, flog, emuVars, listenVars, recVars, callVars, remoteVars>>

\* Lines 133-135: one call of bufferNextRequest; handleConn returns its error.
FramerRead ==
  /\ fpc = "read"
  /\ LET out == bufferNextRequest(fstream, fend, fbuf) IN
       /\ fbuf' = out.buf
       /\ fstream' = out.rest
       /\ ferr' = out.err
       /\ fpc' = IF out.err = NoFramerErr THEN "dispatch" ELSE "return"
  /\ fbefore' = fstream
  /\ UNCHANGED <<fend, flog, emuVars, listenVars, recVars, callVars, remoteVars>>

\* The root causes of an error a request handler returns: none, io.EOF (a
\* frame whose body ends before a field is read, an upstream that closed) or
\* io.ErrUnexpectedEOF (a body that ends inside a field).
HandlerCauses == {"", EOF, "unexpected EOF"}

\* Lines 137-139: HandleRequest gets reqBuffer.Bytes(); it returns nil and the
\* loop goes on, or an error of its own and handleConn returns it.
FramerDispatch ==
  /\ fpc = "dispatch"
  /\ \/ /\ fpc' = "read"
        /\ UNCHANGED ferr
     \/ /\ fpc' = "return"
        /\ \E cause \in HandlerCauses :
             ferr' = FramerErr("unable to decode incoming request", cause, 0)
  /\ UNCHANGED <<fstream, fend, fbuf, fbefore, flog, emuVars, listenVars, recVars, callVars, remoteVars>>

\* Listen, lines 86-96: the task logs why handleConn returned.
FramerLog ==
  /\ fpc = "return"
  /\ flog' = IF IsEOF(ferr) THEN "client disconnected; EOF" ELSE "terminating connection"
  /\ fpc' = "done"
  /\ UNCHANGED <<fstream, fend, fbuf, fbefore, ferr, emuVars, listenVars, recVars, callVars, remoteVars>>

FramerNext == FramerOpen \/ FramerRead \/ FramerDispatch \/ FramerLog

FramerStart ==
  /\ EmulatorInit([c \in Clients |-> 0])
  /\ ListenInit
  /\ RecorderInit
  /\ FramerInit
  /\ CallInit
  /\ RemoteInit

FramerSpec == FramerStart /\ [][FramerNext]_vars

\* The messageLength the header at the front of the last read announced.
Announced == Uint32LE(fbefore)

\* The last read met a whole header.
SawHeader == fpc \in {"dispatch", "return", "done"} /\ Total(fbefore) >= HeaderSize

\* C12: a header announcing fewer than 16 bytes ends the connection with the
\* invalid-length error and nothing is dispatched; a dispatched buffer holds
\* exactly the messageLength bytes at the front of what was unread (the 16 of
\* the header and the payload), nothing of an earlier frame, and the framer
\* has consumed exactly those bytes.
C12_FramerHandsOverExactlyOneFrame ==
  /\ (SawHeader /\ Announced < HeaderSize) =>
       /\ fpc # "dispatch"
       /\ ferr = FramerErr("request header specifies invalid message length", "", Announced)
  /\ fpc = "dispatch" =>
       /\ Total(fbefore) >= HeaderSize /\ Announced >= HeaderSize
       /\ Total(fbuf) = Announced
       /\ fbuf = Take(fbefore, Announced)
       /\ Take(fbuf, HeaderSize) = Take(fbefore, HeaderSize)
       /\ fstream = Drop(fbefore, Announced)

\* The second frame of a connection is dispatched from the reused buffer: its
\* header and payload carry the bytes of the piece sent second.
C12_Witness ==
  /\ fpc = "dispatch"
  /\ Announced = HeaderSize + 2
  /\ ByteAt(fbuf, 5) = 102 /\ ByteAt(fbuf, HeaderSize + 1) = 202


\* C13: every frame that reaches the dispatcher has 16 <= messageLength <=
\* 48,000,000, and a header announcing more than 48,000,000 is rejected: the
\* connection ends with the invalid-length error, as for fewer than 16.
C13_DispatchedLengthWithinLimits ==
  /\ fpc = "dispatch" => (HeaderSize <= Announced /\ Announced <= MaxMessageSize)
  /\ (SawHeader /\ Announced > MaxMessageSize) =>
       ferr.msg = "request header specifies invalid message length"


\* The stream ended with EOF before the first byte of a header.
EofBeforeHeader == fend = "eof" /\ Total(fbefore) = 0

\* The stream ended with EOF inside a frame: after 1 to 15 bytes of its
\* header, or after a valid header and before the end of its payload.
EofInsideFrame ==
  /\ fend = "eof"
  /\ \/ 0 < Total(fbefore) /\ Total(fbefore) < HeaderSize
     \/ /\ Total(fbefore) >= HeaderSize
        /\ Announced >= HeaderSize /\ Total(fbefore) < Announced

\* C14: when the framer ends a connection, end-of-stream before any header
\* byte is logged as the client's clean disconnect; end-of-stream after 1 to
\* 15 header bytes or inside the payload is an error that is not classified
\* as a clean disconnect.
C14_OnlyEofBetweenFramesIsCleanDisconnect ==
  (fpc = "done" /\ ferr.cause # "") =>
    /\ EofBeforeHeader => flog = "client disconnected; EOF"
    /\ EofInsideFrame => flog = "terminating connection"


--------------------------------------------------------------------------
(* protocol.Encode, byte for byte: the header, the OP_REPLY and OP_MSG     *)
(* bodies, the patched length and the Write to the client's writer.        *)
--------------------------------------------------------------------------

\* The documents of one response.
MaxDocs == 2

\* binary.Write of an int32: little-endian two's complement.
Int32LE(n) ==
  IF n >= 0 THEN LE32(n)
  ELSE LET m == LE32((n + 2147483647) + 1) IN <<m[1], m[2], m[3], m[4] + 128>>

\* binary.Write of an int64, for values that fit 32 bits.
Int64LE(n) == Int32LE(n) \o (IF n >= 0 THEN <<0, 0, 0, 0>> ELSE <<255, 255, 255, 255>>)

\* The int32 a client reads at byte offset off of b.
Int32At(b, off) ==
  b[off + 1] + 256 * b[off + 2] + 65536 * b[off + 3]
    + 16777216 * (IF b[off + 4] >= 128 THEN b[off + 4] - 256 ELSE b[off + 4])

\* A bson.M by what bson.Marshal makes of it: the bytes of its elements, or
\* no bytes for a document holding a value that cannot be marshaled.
EncDoc(ok, elems) == [ok |-> ok, elems |-> elems]
EncDocs ==
  { EncDoc(TRUE, << >>),                                 \* {}
    EncDoc(TRUE, <<16, 111, 107, 0, 1, 0, 0, 0>>),       \* {ok: int32(1)}
    EncDoc(FALSE, << >>) }                               \* {f: func() {}}

EncErr(msg, cause) == [msg |-> msg, cause |-> cause]
NoEncErr == EncErr("", "")

\* bson.Marshal: int32 length, the elements, a zero byte.
Marshal(doc) ==
  IF doc.ok
    THEN [err |-> NoEncErr, bytes |-> Int32LE(Len(doc.elems) + 5) \o doc.elems \o <<0>>]
    ELSE [err |-> EncErr("Can't marshal func() as a BSON document", ""), bytes |-> << >>]

\* The loop that both body encoders end with: marshal and append every
\* document, stopping at the first that fails.
RECURSIVE writeDocuments(_, _)
writeDocuments(docs, docIndex) ==
  IF docs = << >> THEN [err |-> NoEncErr, bytes |-> << >>]
  ELSE LET d == Marshal(Head(docs)) IN
       IF d.err # NoEncErr
         THEN [err |-> EncErr("unable to marshal reply doc at index", "writer"),
               bytes |-> << >>]
       ELSE LET more == writeDocuments(Tail(docs), docIndex + 1) IN
            [err |-> more.err, bytes |-> d.bytes \o more.bytes]

\* writeHeaderTo(&buf, hdr)
writeHeaderTo(hdr) ==
  Int32LE(hdr.messageLength) \o Int32LE(hdr.requestID)
    \o Int32LE(hdr.responseTo) \o Int32LE(hdr.opcode)

\* writeOpReplyTo(&buf, r): what it appended to buf and the error it returned.
writeOpReplyTo(r) ==
  LET fixed == LE32(r.flags) \o Int64LE(r.cursorID) \o Int32LE(r.startingFrom)
                 \o Int32LE(Len(r.docs))
      ds == writeDocuments(r.docs, 0)
  IN [err |-> ds.err, bytes |-> fixed \o ds.bytes]

\* writeOpMsgTo(&buf, r)
writeOpMsgTo(r) ==
  LET flags == LE32(0) IN
  IF Len(r.docs) > 1
    THEN [err |-> EncErr("OP_MSG payloads with multiple documents are not supported", ""),
          bytes |-> flags]
  ELSE LET ds == writeDocuments(r.docs, 0) IN
       [err |-> ds.err, bytes |-> flags \o <<0>> \o ds.bytes]

\* binary.LittleEndian.PutUint32(resData[0:4], v)
PutUint32(resData, v) == LE32(v) \o SubSeq(resData, 5, Len(resData))

\* A client writer accepts every byte (Unlimited) or fails after w bytes.
Unlimited == -1
Writers == {Unlimited, 0, 5}

\* w.Write(p): the bytes handed over, how many were accepted, the error.
Write(w, p) ==
  IF w = Unlimited \/ Len(p) <= w
    THEN [data |-> p, n |-> Len(p), err |-> NoEncErr]
    ELSE [data |-> p, n |-> w, err |-> EncErr("write: broken pipe", "")]

\* An Encode that writes the header to w before it serializes the body.
EncodeTo_Unbuffered(w, r, reqID, replyType) ==
  IF replyType = "None" THEN [err |-> NoEncErr, writes |-> << >>]
  ELSE
    LET opcode == IF replyType = "OpReply" THEN 1 ELSE 2013
        body == IF replyType = "OpReply" THEN writeOpReplyTo(r) ELSE writeOpMsgTo(r)
        hdr == writeHeaderTo([messageLength |-> HeaderSize + Len(body.bytes), requestID |-> 0,
                              responseTo |-> reqID, opcode |-> opcode])
        first == Write(w, hdr)
    IN IF first.err # NoEncErr THEN [err |-> first.err, writes |-> <<first>>]
       ELSE IF body.err # NoEncErr
         THEN [err |-> EncErr("unable to serialize reply body", body.err.msg),
               writes |-> <<first>>]
       ELSE LET second == Write(w, body.bytes) IN
            [err |-> second.err, writes |-> <<first, second>>]

\* An Encode that leaves out the length patch of line 43.
EncodeTo_Unpatched(w, r, reqID, replyType) ==
  IF replyType = "None" THEN [err |-> NoEncErr, writes |-> << >>]
  ELSE
    LET opcode == IF replyType = "OpReply" THEN 1 ELSE 2013
        hdr == writeHeaderTo([messageLength |-> 0, requestID |-> 0,
                              responseTo |-> reqID, opcode |-> opcode])
        body == IF replyType = "OpReply" THEN writeOpReplyTo(r) ELSE writeOpMsgTo(r)
    IN IF body.err # NoEncErr
         THEN [err |-> EncErr("unable to serialize reply body", body.err.msg),
               writes |-> << >>]
       ELSE LET out == Write(w, hdr \o body.bytes) IN
            [err |-> out.err, writes |-> <<out>>]

\* protocol.Encode(w, r, reqID, replyType): the error it returns and the
\* writes it made to w.  The header and the body go to a bytes.Buffer, whose
\* writes cannot fail.
EncodeTo(w, r, reqID, replyType) ==
  IF replyType = "None" THEN [err |-> NoEncErr, writes |-> << >>]
  ELSE
    LET opcode == IF replyType = "OpReply" THEN 1 ELSE 2013
        hdr == writeHeaderTo([messageLength |-> 0, requestID |-> 0,
                              responseTo |-> reqID, opcode |-> opcode])
        body == IF replyType = "OpReply" THEN writeOpReplyTo(r) ELSE writeOpMsgTo(r)
    IN IF body.err # NoEncErr
         THEN [err |-> EncErr("unable to serialize reply body", body.err.msg),
               writes |-> << >>]
       ELSE LET buf == hdr \o body.bytes
                resData == PutUint32(buf, Len(buf))
                out == Write(w, resData)
            IN [err |-> out.err, writes |-> <<out>>]

ReplyTypes == {"None", "OpReply", "OpMsg"}
RequestIDs == {0, 1, -1, 2147483647}
DocSeqs == UNION { [1..k -> EncDocs] : k \in 0..MaxDocs }
EncResponses ==
  { [flags |-> f, cursorID |-> cur, startingFrom |-> 0, docs |-> ds] :
      f \in {0, ResponseFlagCursorNotFound, ResponseFlagQueryError},
      cur \in {0, 77}, ds \in DocSeqs }

\* HandleRequest calls Encode for a reply (emulator.go line 96) and returns
\* its error, on which handleConn returns and the connection ends.
CallEncode ==
  /\ cfn = "none"
  /\ \E w \in Writers, r \in EncResponses, reqID \in RequestIDs, replyType \in ReplyTypes :
       LET out == EncodeTo(w, r, reqID, replyType) IN
       /\ cfn' = "Encode"
       /\ cargs' = [w |-> w, r |-> r, reqID |-> reqID, replyType |-> replyType]
       /\ cret' = [err |-> out.err, writes |-> out.writes,
                   conn |-> IF out.err # NoEncErr THEN "terminated" ELSE "open"]
  /\ UNCHANGED <<emuVars, listenVars, recVars, framerVars, remoteVars, decoders>>

EncodeNext == CallEncode

EncodeStart ==
  /\ EmulatorInit([c \in Clients |-> 0])
  /\ ListenInit
  /\ RecorderInit
  /\ FramerInit
  /\ CallInit
  /\ RemoteInit

EncodeSpec == EncodeStart /\ [][EncodeNext]_vars

\* The bytes the writer accepted, over all the writes of a call.
RECURSIVE Written(_)
Written(writes) ==
  IF writes = << >> THEN << >>
  ELSE SubSeq(Head(writes).data, 1, Head(writes).n) \o Written(Tail(writes))

\* C15: when Encode succeeds for envelope OpReply or OpMsg, the first 16
\* bytes written are a header with responseTo = rid, opcode 1 for OpReply
\* and 2013 for OpMsg, and messageLength equal to the number of bytes
\* written; for envelope None Encode writes nothing and succeeds.
C15_EncodedHeaderMatchesRequest ==
  cfn = "Encode" =>
    /\ (cargs.replyType # "None" /\ cret.err = NoEncErr) =>
         LET out == Written(cret.writes) IN
         /\ Len(out) >= HeaderSize
         /\ Int32At(out, 8) = cargs.reqID
         /\ Int32At(out, 12) = (IF cargs.replyType = "OpReply" THEN 1 ELSE 2013)
         /\ Int32At(out, 0) = Len(out)
    /\ cargs.replyType = "None" => (cret.err = NoEncErr /\ cret.writes = << >>)

\* An OP_REPLY with a negative request id and one document was written.
C15_Witness ==
  /\ cfn = "Encode" /\ cargs.replyType = "OpReply" /\ cargs.reqID = -1
  /\ Len(cargs.r.docs) = 1 /\ cret.err = NoEncErr
  /\ Len(Written(cret.writes)) = 49


\* Encode could serialize the reply: it did not return a serialization error.
Serialized == cret.err.msg # "unable to serialize reply body"

\* The message Encode has to hand over: the header with the length of the
\* whole message, then the body.
CompleteMessage(r, reqID, replyType) ==
  LET body == IF replyType = "OpReply" THEN writeOpReplyTo(r) ELSE writeOpMsgTo(r) IN
  writeHeaderTo([messageLength |-> HeaderSize + Len(body.bytes), requestID |-> 0,
                 responseTo |-> reqID,
                 opcode |-> IF replyType = "OpReply" THEN 1 ELSE 2013])
    \o body.bytes

\* C16: a call of Encode writes to the client's writer at most once: exactly
\* once, handing over the complete length-patched message, when the reply
\* could be serialized, and not at all when it could not, which is the case
\* for envelope OpMsg and a response of more than one document; the failure
\* is returned as an error, on which the connection is terminated.
C16_EncodeWritesOnceOrNotAtAll ==
  cfn = "Encode" =>
    /\ Len(cret.writes) <= 1
    /\ (cargs.replyType # "None" /\ Serialized) =>
         /\ Len(cret.writes) = 1
         /\ cret.writes[1].data = CompleteMessage(cargs.r, cargs.reqID, cargs.replyType)
         /\ Int32At(cret.writes[1].data, 0) = Len(cret.writes[1].data)
    /\ ~Serialized =>
         /\ cret.writes = << >>
         /\ cret.err # NoEncErr /\ cret.conn = "terminated"
    /\ (cargs.replyType = "OpMsg" /\ Len(cargs.r.docs) > 1) => ~Serialized

\* Encode refused an OP_MSG reply of two documents that marshal.
C16_Witness ==
  /\ cfn = "Encode" /\ cargs.replyType = "OpMsg" /\ cargs.w = Unlimited
  /\ Len(cargs.r.docs) = 2 /\ \A k \in 1..2 : cargs.r.docs[k].ok
  /\ cret.err.cause = "OP_MSG payloads with multiple documents are not supported"
  /\ cret.writes = << >>


--------------------------------------------------------------------------
(* protocol.Decode over every opcode and command.                          *)
--------------------------------------------------------------------------

\* The opcodes with a decoder and three without: OP_REPLY, 2003, OP_COMMAND.
Opcodes == {2001, 2002, 2004, 2005, 2006, 2007, 2013, 1, 2003, 2010}

\* The first field of a command document: the five commands of cmdDecoder,
\* others without a sub-decoder (isMaster also written with a long s, U+017F,
\* whose upper case is S), and "" for a message that carries no command.
CommandNames ==
  {"", "insert", "update", "delete", "find", "findAndModify", "isMaster", "ping",
   "whatsmyuri", "isma\\u017fter"}

\* What a command document holds for its decoder: nothing, the list it needs,
\* an update document, remove: true, or both of the last two, and with
\* updates, update or remove an array filter that is not a document.
ArgSets ==
  { {}, {"documents"}, {"updates"}, {"noUpdates"}, {"deletes"}, {"update"},
    {"remove"}, {"remove", "update"}, {"updates", "badArrayFilters"},
    {"noUpdates", "badArrayFilters"}, {"update", "badArrayFilters"},
    {"remove", "badArrayFilters"} }

\* An OP_MSG whose body parses has a command document with a first field.
DecodeFrames ==
  { f \in { Frame(op, body, db, cmd, args) :
              op \in Opcodes, body \in {"valid", "truncated"},
              db \in {"test", "admin"}, cmd \in CommandNames, args \in ArgSets } :
      (f.op = 2013 /\ f.body = "valid") => f.cmd # "" }

\* HandleRequest line 76: protocol.Decode(reqData).
CallDecode ==
  /\ cfn = "none"
  /\ \E f \in DecodeFrames :
       /\ cfn' = "Decode"
       /\ cargs' = f
       /\ cret' = Decode(f)
  /\ UNCHANGED <<emuVars, listenVars, recVars, framerVars, remoteVars, decoders>>

DecodeNext == CallDecode

DecodeStart ==
  /\ EmulatorInit([c \in Clients |-> 0])
  /\ ListenInit
  /\ RecorderInit
  /\ FramerInit
  /\ DecoderInit
  /\ RemoteInit

DecodeSpec == DecodeStart /\ [][DecodeNext]_vars

\* C17: the reply type of a decoded request is fixed by the opcode of the
\* incoming message: None for OP_UPDATE, OP_INSERT, OP_DELETE,
\* OP_KILL_CURSORS and unknown opcodes; OpReply for OP_GET_MORE and for every
\* request decoded from OP_QUERY; OpMsg for every request decoded from OP_MSG,
\* the sub-decoded commands included.
C17_ReplyEnvelopeFollowsRequestEnvelope ==
  (cfn = "Decode" /\ cret.ok) =>
    cret.reply = CASE cargs.op \in {2001, 2002, 2006, 2007} -> "None"
                   [] cargs.op \in {2004, 2005} -> "OpReply"
                   [] cargs.op = 2013 -> "OpMsg"
                   [] OTHER -> "None"


--------------------------------------------------------------------------
(* MongoEmulator.process over every kind of request and backend result.    *)
--------------------------------------------------------------------------

\* How deep a backend wraps the error it returns.
MaxWraps == 2

\* xerrors.Errorf(text + ": %w", err): a new error, no ServerError itself,
\* whose text ends with err's and whose chain leads to err.
Wrapf(text, err) ==
  [msg |-> text \o ": " \o ErrorString(err), sentinel |-> err.sentinel,
   srv |-> FALSE, code |-> 0]

WrapTexts == {"backend", "sqlite"}
WrapChains == UNION { [1..k -> WrapTexts] : k \in 0..MaxWraps }

\* The error the backend returns when it wraps err in the texts of chain,
\* the last text outermost.
RECURSIVE WrapAll(_, _)
WrapAll(chain, err) ==
  IF chain = << >> THEN err
  ELSE Wrapf(chain[Len(chain)], WrapAll(SubSeq(chain, 1, Len(chain) - 1), err))

\* errors.New("disk full"): an error of the backend's own.
ErrBackend == [msg |-> "disk full", sentinel |-> "", srv |-> FALSE, code |-> 0]

\* The errors a backend starts from; none is an error a built-in handler
\* makes, so that a handler's result is told from the backend's.
BaseErrors ==
  { ErrUnsupportedRequest, ErrInvalidCursor, ErrBackend,
    ServerErrorf(CodeUnauthorized, "not authorized"),
    ServerErrorf(CodeNoReplicationEnabled, "replication is off"),
    ServerErrorf(2, "bad value") }

\* What Backend.HandleRequest may return to process: a response, or a
\* response (empty or not) together with an error, bare or wrapped.
ProcessBackendResults ==
  { [res |-> [flags |-> 0, docs |-> <<BackendDoc>>], err |-> NoErr] }
    \cup { [res |-> r, err |-> WrapAll(chain, e)] :
             r \in {EmptyResponse, [flags |-> 0, docs |-> <<BackendDoc>>]},
             chain \in WrapChains, e \in BaseErrors }

\* The requests Decode makes.
DecodedRequests == { Decode(f) : f \in { g \in DecodeFrames : Decode(g).ok } }

\* HandleRequest line 81: emu.process(clientID, req), b being what the
\* backend returns for the request.
CallProcess ==
  /\ cfn = "none"
  /\ \E clientID \in Clients, req \in DecodedRequests, b \in ProcessBackendResults :
       /\ cfn' = "process"
       /\ cargs' = [clientID |-> clientID, req |-> req, b |-> b]
       /\ cret' = process(clientID, req, b)
  /\ UNCHANGED <<emuVars, listenVars, recVars, framerVars, remoteVars, decoders>>

ProcessNext == CallProcess

ProcessStart ==
  /\ EmulatorInit([c \in Clients |-> 0])
  /\ ListenInit
  /\ RecorderInit
  /\ FramerInit
  /\ DecoderInit
  /\ RemoteInit

ProcessSpec == ProcessStart /\ [][ProcessNext]_vars

\* What the registry can have produced for a client: the result of one of
\* its handlers, or its own error for a command it does not know.
FromRegistry(clientID, out) ==
  \/ \E db \in {"test", "admin"} :
       out \in { handleIsMaster(clientID), handleWhatsMyURI(clientID), handleBuildInfo,
                 handleGetLog,
                 handleReplSetGetStatus([db |-> db]) }
  \/ \E cmd \in CommandNames : out = [res |-> EmptyResponse, err |-> CommandUnsupported(cmd)]

\* The backend's result is or wraps ErrUnsupportedRequest: it was made from
\* that error by wrapping it any number of times.
ReturnsUnsupported(b) ==
  \E chain \in WrapChains : b.err = WrapAll(chain, ErrUnsupportedRequest)

\* C18: process consults the built-in registry if and only if the backend's
\* error is or wraps ErrUnsupportedRequest and the request is a Command; in
\* every other case (another error on a Command, ErrUnsupportedRequest on a
\* request of another type, no error) the backend's response and error are
\* returned unchanged and no handler's result appears.
C18_RegistryOnlyForUnsupportedCommands ==
  cfn = "process" =>
    /\ FromRegistry(cargs.clientID, cret)
         <=> (ReturnsUnsupported(cargs.b) /\ cargs.req.type = "command")
    /\ ~(ReturnsUnsupported(cargs.b) /\ cargs.req.type = "command") => cret = cargs.b

\* The backend wrapped ErrUnsupportedRequest for an isMaster command and the
\* client got the registry's answer.
C18_Witness ==
  /\ cfn = "process" /\ cargs.req.type = "command" /\ cargs.req.cmd = "isMaster"
  /\ cargs.b.err = Wrapf("backend", ErrUnsupportedRequest)
  /\ cret = handleIsMaster(cargs.clientID)


--------------------------------------------------------------------------
(* toErrorResponse over bare and wrapped errors and both reply types.      *)
--------------------------------------------------------------------------

\* The errors process returns to HandleRequest: the backend's, bare or
\* wrapped, and those of the registry.
ReportedErrors ==
  BaseErrors \cup { CommandUnsupported("ping"),
                    ServerErrorf(CodeNoReplicationEnabled, "not running with --replSet") }

\* HandleRequest line 88: toErrorResponse(err, req.GetReplyType()), reached
\* only for a request that expects a reply.  base is the error at the end of
\* err's chain and chain the texts it was wrapped in.
CallToErrorResponse ==
  /\ cfn = "none"
  /\ \E base \in ReportedErrors, chain \in WrapChains, replyType \in {"OpReply", "OpMsg"} :
       LET err == WrapAll(chain, base) IN
       /\ cfn' = "toErrorResponse"
       /\ cargs' = [base |-> base, chain |-> chain, err |-> err, replyType |-> replyType]
       /\ cret' = toErrorResponse(err, replyType)
  /\ UNCHANGED <<emuVars, listenVars, recVars, framerVars, remoteVars, decoders>>

ErrorResponseNext == CallToErrorResponse

ErrorResponseStart ==
  /\ EmulatorInit([c \in Clients |-> 0])
  /\ ListenInit
  /\ RecorderInit
  /\ FramerInit
  /\ CallInit
  /\ RemoteInit

ErrorResponseSpec == ErrorResponseStart /\ [][ErrorResponseNext]_vars

\* C19: an error response carries exactly one flag and exactly one document:
\* CursorNotFound alone when the error is or wraps ErrInvalidCursor,
\* QueryError alone for every other error.
C19_ErrorResponseHasOneFlagOneDocument ==
  cfn = "toErrorResponse" =>
    /\ Len(cret.docs) = 1
    /\ cret.flags = IF cargs.base = ErrInvalidCursor THEN ResponseFlagCursorNotFound
                    ELSE ResponseFlagQueryError

\* A twice wrapped ErrInvalidCursor was reported with CursorNotFound.
C19_Witness ==
  /\ cfn = "toErrorResponse"
  /\ cargs.base = ErrInvalidCursor /\ Len(cargs.chain) = 2
  /\ cret.flags = ResponseFlagCursorNotFound /\ Len(cret.docs) = 1

\* C20: for OpReply the error document is {$err: <error string>, ok: 0}; for
\* OpMsg it is {errmsg: <string>, ok: 0} and holds code and codeName (the
\* code's number and name) whenever the underlying error is a ServerError,
\* also when that error arrives wrapped in another; code and codeName are
\* absent for every error that is no ServerError.
C20_ErrorDocumentFollowsEnvelope ==
  cfn = "toErrorResponse" =>
    LET d == cret.docs[1] IN
    /\ cargs.replyType = "OpReply" =>
         d = ("$err" :> ErrorString(cargs.err)) @@ ("ok" :> "0")
    /\ cargs.replyType = "OpMsg" =>
         /\ {"errmsg", "ok"} \subseteq DOMAIN d /\ d["ok"] = "0"
         /\ cargs.base.srv =>
              /\ DOMAIN d = {"errmsg", "ok", "code", "codeName"}
              /\ d["code"] = cargs.base.code
              /\ d["codeName"] = CodeString(cargs.base.code)
         /\ ~cargs.base.srv => DOMAIN d = {"errmsg", "ok"}


--------------------------------------------------------------------------
(* The built-in replSetGetStatus handler, reached through process.         *)
--------------------------------------------------------------------------

\* The database names of the commands sent.
ReplSetDatabases == {"admin", "Admin", "ADMIN", "test", "local", ""}

\* HandleRequest line 81 for a replSetGetStatus command, sent in an OP_QUERY
\* or an OP_MSG, that the backend leaves to the emulator: process hands it
\* to the registry, which runs handleReplSetGetStatus.
CallReplSetGetStatus ==
  /\ cfn = "none"
  /\ \E clientID \in Clients, op \in {2004, 2013}, db \in ReplSetDatabases,
        chain \in WrapChains, r \in {EmptyResponse, [flags |-> 0, docs |-> <<BackendDoc>>]} :
       LET req == Decode(Frame(op, "valid", db, "replSetGetStatus", {}))
           b == [res |-> r, err |-> WrapAll(chain, ErrUnsupportedRequest)]
       IN /\ cfn' = "replSetGetStatus"
          /\ cargs' = [clientID |-> clientID, req |-> req, b |-> b]
          /\ cret' = process(clientID, req, b)
  /\ UNCHANGED <<emuVars, listenVars, recVars, framerVars, remoteVars, decoders>>

ReplSetNext == CallReplSetGetStatus

ReplSetStart ==
  /\ EmulatorInit([c \in Clients |-> 0])
  /\ ListenInit
  /\ RecorderInit
  /\ FramerInit
  /\ CallInit
  /\ RemoteInit

ReplSetSpec == ReplSetStart /\ [][ReplSetNext]_vars

\* C21: the replSetGetStatus handler never succeeds: it fails with
\* ServerError code 13, Unauthorized, for every database that is not exactly
\* "admin", and with ServerError code 76, NoReplicationEnabled, for "admin".
C21_ReplSetGetStatusAlwaysFails ==
  cfn = "replSetGetStatus" =>
    /\ cret.err # NoErr /\ cret.err.srv
    /\ cret.res = EmptyResponse
    /\ cargs.req.db = "admin" =>
         (cret.err.code = 76 /\ CodeString(cret.err.code) = "NoReplicationEnabled")
    /\ cargs.req.db # "admin" =>
         (cret.err.code = 13 /\ CodeString(cret.err.code) = "Unauthorized")

\* The command was run against "Admin" and refused as unauthorized.
C21_Witness ==
  /\ cfn = "replSetGetStatus" /\ cargs.req.db = "Admin"
  /\ cret.err.srv /\ cret.err.code = 13


--------------------------------------------------------------------------
(* NewMongoEmulator and the first request of an emulator it made.          *)
--------------------------------------------------------------------------

\* No emulator: the nil *MongoEmulator returned with an error.
NoEmulator == [b |-> "nil", logger |-> "nil", lastError |-> << >>, cmdHandlers |-> {}]

\* NewMongoEmulator(b, logger): b is "nil" or the name of a backend, logger
\* is "nil" or a logger.
NewMongoEmulator(b, logger) ==
  IF b = "nil" THEN [emu |-> NoEmulator, err |-> "no backend specified"]
  ELSE [emu |-> [b |-> b, logger |-> IF logger = "nil" THEN "discard" ELSE logger,
                 lastError |-> << >>, cmdHandlers |-> cmdHandlers],
        err |-> ""]

\* The runtime error of a method call on a nil interface value.
NilDereference ==
  [msg |-> "runtime error: invalid memory address or nil pointer dereference",
   sentinel |-> "", srv |-> FALSE, code |-> 0]

\* emu.b.HandleRequest(clientID, req): the dummy backend returns
\* ErrUnsupportedRequest for every request; a nil backend cannot be called.
BackendHandleRequest(b, clientID, req) ==
  IF b = "dummy" THEN [res |-> EmptyResponse, err |-> ErrUnsupportedRequest]
  ELSE [res |-> EmptyResponse, err |-> NilDereference]

\* EmulateServer: the serve command constructs the emulator.
CallNewMongoEmulator ==
  /\ cfn = "none"
  /\ \E b \in {"nil", "dummy"}, logger \in {"nil", "srvLogger"} :
       /\ cfn' = "NewMongoEmulator"
       /\ cargs' = [b |-> b, logger |-> logger]
       /\ cret' = NewMongoEmulator(b, logger)
  /\ UNCHANGED <<emuVars, listenVars, recVars, framerVars, remoteVars, decoders>>

\* HandleRequest line 81 on the emulator that was constructed.
EmulatorProcess ==
  /\ cfn = "NewMongoEmulator" /\ cret.err = ""
  /\ \E clientID \in Clients, req \in DecodedRequests :
       /\ cfn' = "process"
       /\ cargs' = [b |-> cret.emu.b, logger |-> cret.emu.logger,
                    clientID |-> clientID, req |-> req]
       /\ cret' = process(clientID, req, BackendHandleRequest(cret.emu.b, clientID, req))
  /\ UNCHANGED <<emuVars, listenVars, recVars, framerVars, remoteVars, decoders>>

ConstructNext == CallNewMongoEmulator \/ EmulatorProcess

ConstructStart ==
  /\ EmulatorInit([c \in Clients |-> 0])
  /\ ListenInit
  /\ RecorderInit
  /\ FramerInit
  /\ DecoderInit
  /\ RemoteInit

ConstructSpec == ConstructStart /\ [][ConstructNext]_vars

\* The request is a command with a built-in handler.
IsBuiltIn(req) == req.type = "command" /\ ToUpper(req.cmd) \in cmdHandlers

\* The result is the isMaster handler's: ok = 1 and the client's id.
AnsweredIsMaster(clientID, out) ==
  /\ out.err = NoErr /\ Len(out.res.docs) = 1
  /\ out.res.docs[1]["ok"] = "1" /\ out.res.docs[1]["connectionId"] = clientID

\* C22: with no backend the emulator is constructed and serves: isMaster is
\* answered by its handler (ok = 1, connectionId = clientID) and every
\* request without a built-in handler ends with ErrUnsupportedRequest.
C22_NoBackendStillServes ==
  /\ (cfn = "NewMongoEmulator" /\ cargs.b = "nil") => cret.err = ""
  /\ (cfn = "process" /\ cargs.b = "nil") =>
       /\ (cargs.req.type = "command" /\ cargs.req.cmd = "isMaster") =>
            AnsweredIsMaster(cargs.clientID, cret)
       /\ ~IsBuiltIn(cargs.req) => Is(cret.err, ErrUnsupportedRequest)

--------------------------------------------------------------------------
(* protocol.Decode on the bytes of a frame.  The frame is a sequence of    *)
(* bytes, a reader is the sequence of the bytes not yet read, and every    *)
(* decoder returns what it decoded, the error it failed with, and the      *)
(* bytes it left in the reader.  An error keeps the text of its outermost  *)
(* message and the io error at the root of its %w chain.                   *)

sizeOfRPCHeader == 16

DecErr(msg, cause) == [msg |-> msg, cause |-> cause]
NoDecErr == DecErr("", "")
Failed(e) == e # NoDecErr

\* x := e, then the rest: e is computed once and its value is handed on.
With(e, Rest(_)) == CHOOSE out \in { Rest(v) : v \in {e} } : TRUE

\* The first n bytes of a reader, and the reader after n bytes.
First(s, n) == SubSeq(s, 1, IF n < Len(s) THEN n ELSE Len(s))
After(s, n) == SubSeq(s, n + 1, Len(s))

\* A binary.Read that leaves the value zero when the reader ends early.
ReadFull_ZeroFill(r, n) ==
  IF Len(r) >= n
    THEN [err |-> NoDecErr, bytes |-> First(r, n), rest |-> After(r, n)]
    ELSE [err |-> NoDecErr, bytes |-> [i \in 1..n |-> 0], rest |-> << >>]

\* binary.Read of a value of n bytes (io.ReadFull): io.EOF when the reader
\* is empty, io.ErrUnexpectedEOF when it ends inside the value.
ReadFull(r, n) ==
  IF Len(r) >= n
    THEN [err |-> NoDecErr, bytes |-> First(r, n), rest |-> After(r, n)]
    ELSE [err |-> IF Len(r) = 0 THEN DecErr("EOF", "EOF")
                  ELSE DecErr("unexpected EOF", "ErrUnexpectedEOF"),
          bytes |-> << >>, rest |-> << >>]

\* A uint32 below 2^31 from its four bytes.
Uint32Of(b) == b[1] + 256 * b[2] + 65536 * b[3] + 16777216 * b[4]

\* The position of the first zero byte of s, 0 when it has none.
ZeroAt(s) ==
  IF \E i \in 1..Len(s) : s[i] = 0
    THEN CHOOSE i \in 1..Len(s) : s[i] = 0 /\ \A j \in 1..(i - 1) : s[j] # 0
    ELSE 0

RPCHeader(len, id, to, op) ==
  [MessageLength |-> len, RequestID |-> id, ResponseTo |-> to, Opcode |-> op]

PayloadLength(h) == h.MessageLength - sizeOfRPCHeader

\* decodeHeader: four int32 fields, none of them validated.
decodeHeader(r) ==
  LET bad(msg, cause) ==
        [err |-> DecErr(msg, cause), hdr |-> RPCHeader(0, 0, 0, 0), rest |-> << >>]
  IN With(ReadFull(r, 4), LAMBDA f1 :
       IF Failed(f1.err) THEN bad("unable to read message length field", f1.err.cause)
       ELSE With(ReadFull(f1.rest, 4), LAMBDA f2 :
       IF Failed(f2.err) THEN bad("unable to read request ID field", f2.err.cause)
       ELSE With(ReadFull(f2.rest, 4), LAMBDA f3 :
       IF Failed(f3.err) THEN bad("unable to read response to field", f3.err.cause)
       ELSE With(ReadFull(f3.rest, 4), LAMBDA f4 :
       IF Failed(f4.err) THEN bad("unable to read opcode field", f4.err.cause)
       ELSE [err |-> NoDecErr,
             hdr |-> RPCHeader(Int32At(f1.bytes, 0), Int32At(f2.bytes, 0),
                               Int32At(f3.bytes, 0), Int32At(f4.bytes, 0)),
             rest |-> f4.rest]))))

\* decodeCString: bytes up to a zero byte, at most maxLen of them.
decodeCString(r, maxLen) ==
  With(ZeroAt(r), LAMBDA z :
    IF z # 0 /\ z <= maxLen
      THEN [err |-> NoDecErr, val |-> First(r, z - 1), rest |-> After(r, z)]
    ELSE IF Len(r) < maxLen
      THEN [err |-> DecErr("unable to read cstring from stream", "EOF"),
            val |-> << >>, rest |-> << >>]
    ELSE [err |-> DecErr("unable to read cstring from stream: exceeded max allowed string length without locating null terminator", ""),
          val |-> << >>, rest |-> << >>])

\* The '.' that strings.SplitN and strings.ContainsRune look for.
Dot == 46

DotAt(s) ==
  IF \E i \in 1..Len(s) : s[i] = Dot
    THEN CHOOSE i \in 1..Len(s) : s[i] = Dot /\ \A j \in 1..(i - 1) : s[j] # Dot
    ELSE 0

\* decodeNamespacedCollection: "db.collection", both parts non-empty.
decodeNamespacedCollection(r, maxLen) ==
  LET bad(msg, cause) ==
        [err |-> DecErr(msg, cause), db |-> << >>, col |-> << >>, rest |-> << >>]
  IN With(decodeCString(r, maxLen), LAMBDA cs :
       IF Failed(cs.err)
         THEN bad("unable to decode namespaced collection", cs.err.cause)
       ELSE With(DotAt(cs.val), LAMBDA d :
         IF d = 0
           THEN bad("unable to decode namespaced collection: malformed namespace", "")
         ELSE IF d = 1
           THEN bad("unable to decode namespaced collection: malformed namespace; empty database name", "")
         ELSE IF d = Len(cs.val)
           THEN bad("unable to decode namespaced collection: malformed namespace; empty collection name", "")
         ELSE [err |-> NoDecErr, db |-> First(cs.val, d - 1), col |-> After(cs.val, d),
               rest |-> cs.rest]))

\* The BSON element kinds the decoders ask for by their Go type: string,
\* bson.D, []interface{}, bool and int.
KindString == 2
KindDocument == 3
KindArray == 4
KindBool == 8
KindInt32 == 16

BsonElem(name, kind, val) == [Name |-> name, kind |-> kind, Value |-> val]

\* What reading a value gives: the value and the bytes after it, or a
\* corrupted document.
Corrupted == [ok |-> FALSE, Value |-> << >>, rest |-> << >>]
ValueRead(v, rest) == [ok |-> TRUE, Value |-> v, rest |-> rest]

\* The size of a value whose kind fixes it: double, ObjectId, bool, datetime,
\* int32, timestamp, int64 and decimal128, and the kinds that have no value
\* (undefined, null, max key, min key); -1 for every other kind.
FixedSize(kind) ==
  CASE kind \in {1, 9, 17, 18} -> 8
    [] kind = 7 -> 12
    [] kind = KindBool -> 1
    [] kind = KindInt32 -> 4
    [] kind = 19 -> 16
    [] kind \in {6, 10, 127, 255} -> 0
    [] OTHER -> -1

\* readStr: an int32 length, length-1 bytes and a zero byte.
readStr(b) ==
  IF Len(b) < 4 THEN Corrupted
  ELSE With(Int32At(b, 0), LAMBDA l :
         IF l < 1 \/ Len(b) - 4 < l THEN Corrupted
         ELSE IF b[4 + l] # 0 THEN Corrupted
         ELSE ValueRead(SubSeq(b, 5, 3 + l), After(b, 4 + l)))

\* readCStr: the bytes up to the next zero byte.
readCStr(b) ==
  With(ZeroAt(b), LAMBDA z :
    IF z = 0 THEN Corrupted ELSE ValueRead(First(b, z - 1), After(b, z)))

RECURSIVE unmarshalElems(_, _)
RECURSIVE readElemTo(_, _)

\* readDocTo and readSliceDoc: an int32 size that counts itself, the elements
\* and the zero byte that ends them.  An array's elements are kept with the
\* names they were sent under.
readDoc(b) ==
  IF Len(b) < 4 THEN Corrupted
  ELSE With(Int32At(b, 0), LAMBDA size :
         IF size <= 4 \/ size > Len(b) THEN Corrupted
         ELSE IF b[size] # 0 THEN Corrupted
         ELSE With(unmarshalElems(SubSeq(b, 5, size), << >>), LAMBDA u :
                IF u.ok THEN ValueRead(u.doc, After(b, size)) ELSE Corrupted))

\* readElemTo: the value of an element of the given kind at the front of b.
\* An int32 is kept as a number, a bool as a truth value, a document or an
\* array as its elements, a string as its bytes, anything else as the bytes
\* it was sent as.
readElemTo(kind, b0) ==
  With(b0, LAMBDA b :
    IF FixedSize(kind) >= 0
      THEN IF Len(b) < FixedSize(kind) THEN Corrupted
           ELSE IF kind = KindInt32 THEN ValueRead(Int32At(b, 0), After(b, 4))
           ELSE IF kind = KindBool
             THEN IF b[1] \in {0, 1} THEN ValueRead(b[1] = 1, After(b, 1)) ELSE Corrupted
           ELSE ValueRead(First(b, FixedSize(kind)), After(b, FixedSize(kind)))
    ELSE IF kind \in {KindString, 13, 14} THEN readStr(b)
    ELSE IF kind \in {KindDocument, KindArray} THEN readDoc(b)
    ELSE IF kind = 5
      THEN IF Len(b) < 5 THEN Corrupted
           ELSE With(Int32At(b, 0), LAMBDA l :
                  IF l < 0 \/ Len(b) - 5 < l THEN Corrupted
                  ELSE ValueRead(SubSeq(b, 5, 5 + l), After(b, 5 + l)))
    ELSE IF kind = 11
      THEN With(readCStr(b), LAMBDA pattern :
             IF ~pattern.ok THEN Corrupted
             ELSE With(readCStr(pattern.rest), LAMBDA options :
                    IF ~options.ok THEN Corrupted
                    ELSE ValueRead(<<pattern.Value, options.Value>>, options.rest)))
    ELSE IF kind = 12
      THEN With(readStr(b), LAMBDA ns :
             IF ~ns.ok \/ Len(ns.rest) < 12 THEN Corrupted
             ELSE ValueRead(<<ns.Value, First(ns.rest, 12)>>, After(ns.rest, 12)))
    ELSE IF kind = 15
      THEN IF Len(b) < 4 THEN Corrupted
           ELSE With(readStr(After(b, 4)), LAMBDA code :
                  IF ~code.ok THEN Corrupted
                  ELSE With(readDoc(code.rest), LAMBDA scope :
                         IF ~scope.ok THEN Corrupted
                         ELSE ValueRead(<<code.Value, scope.Value>>, scope.rest)))
    ELSE Corrupted)

\* bson.Unmarshal into a bson.D, given the bytes that follow the size: the
\* elements in order (a kind byte, a name, a value), each leaving at least a
\* byte behind it, then one zero byte that ends the document.  Anything else
\* is a corrupted document.
unmarshalElems(raw0, out0) ==
  LET corrupted == [ok |-> FALSE, doc |-> << >>]
  IN With(<<raw0, out0>>, LAMBDA a :
       LET raw == a[1]
           out == a[2]
       IN IF Len(raw) = 0 THEN corrupted
          ELSE IF raw[Len(raw)] # 0 THEN corrupted
          ELSE IF raw[1] = 0
            THEN IF Len(raw) = 1 THEN [ok |-> TRUE, doc |-> out] ELSE corrupted
          ELSE With(readCStr(Tail(raw)), LAMBDA name :
            IF ~name.ok \/ Len(name.rest) = 0 THEN corrupted
            ELSE With(readElemTo(raw[1], name.rest), LAMBDA val :
              IF ~val.ok THEN corrupted
              ELSE unmarshalElems(val.rest,
                                  Append(out, BsonElem(name.Value, raw[1], val.Value))))))

Unmarshal(raw) == unmarshalElems(raw, << >>)

\* decodeBSONDocument: an int32 size, then size-4 bytes handed to
\* bson.Unmarshal.  A size of exactly 4 is taken as the empty document, and
\* one Read call must deliver the whole document.
decodeBSONDocument(r) ==
  LET bad(msg, cause) == [err |-> DecErr(msg, cause), doc |-> << >>, rest |-> << >>]
  IN With(ReadFull(r, 4), LAMBDA sz :
       IF Failed(sz.err)
         THEN bad("unable to read BSON doc from stream", sz.err.cause)
       ELSE With(Int32At(sz.bytes, 0), LAMBDA docSize :
         IF docSize < 4
           THEN bad("unable to read BSON doc from stream: invalid doc size", "")
         ELSE IF docSize - 4 = 0
           THEN [err |-> NoDecErr, doc |-> << >>, rest |-> sz.rest]
         ELSE IF Len(sz.rest) = 0
           THEN bad("unable to read BSON doc from stream", "EOF")
         ELSE IF Len(sz.rest) < docSize - 4
           THEN bad("read partial BSON doc from stream", "")
         ELSE With(Unmarshal(First(sz.rest, docSize - 4)), LAMBDA u :
           IF ~u.ok
             THEN bad("unable to unmarshal BSON doc", "")
             ELSE [err |-> NoDecErr, doc |-> u.doc,
                   rest |-> After(sz.rest, docSize - 4)])))

\* The loop that reads documents until the reader reports io.EOF.
RECURSIVE decodeDocuments(_, _)
decodeDocuments(r, docs0) ==
  With(<<decodeBSONDocument(r), docs0>>, LAMBDA a :
    LET d == a[1]
        docs == a[2]
    IN IF Failed(d.err)
         THEN IF d.err.cause = "EOF"
                THEN [err |-> NoDecErr, docs |-> docs]
                ELSE [err |-> d.err, docs |-> << >>]
         ELSE decodeDocuments(d.rest, Append(docs, d.doc)))

\* A decoded request: RequestInfo and the fields of the concrete request
\* types, empty where a type has no such field.
RequestInfo(hdr, type, reply) ==
  [err |-> NoDecErr, panic |-> FALSE, hdr |-> hdr, type |-> type, reply |-> reply,
   db |-> << >>, col |-> << >>, cmd |-> << >>, docs |-> << >>,
   seqs |-> << >>, ids |-> << >>, payload |-> << >>]

\* A decoder's (nil, err).
NoRequest(msg, cause) ==
  [RequestInfo(RPCHeader(0, 0, 0, 0), "", "") EXCEPT !.err = DecErr(msg, cause)]

decodeUpdateOp(hdr, r) ==
  With(ReadFull(r, 4), LAMBDA reserved :
  IF Failed(reserved.err)
    THEN NoRequest("unable to reserved reserved field for update op", reserved.err.cause)
  ELSE With(decodeNamespacedCollection(reserved.rest, PayloadLength(hdr) - 4), LAMBDA nsCol :
  IF Failed(nsCol.err)
    THEN NoRequest("unable to read namespaced collection for update op", nsCol.err.cause)
  ELSE With(ReadFull(nsCol.rest, 4), LAMBDA flags :
  IF Failed(flags.err)
    THEN NoRequest("unable to read flags for update op", flags.err.cause)
  ELSE With(decodeBSONDocument(flags.rest), LAMBDA selectorDoc :
  IF Failed(selectorDoc.err)
    THEN NoRequest("unable to read selector doc for update op", selectorDoc.err.cause)
  ELSE With(decodeBSONDocument(selectorDoc.rest), LAMBDA updateDoc :
  IF Failed(updateDoc.err)
    THEN NoRequest("unable to read update doc for update op", updateDoc.err.cause)
  ELSE [RequestInfo(hdr, "update", "None") EXCEPT
          !.db = nsCol.db, !.col = nsCol.col,
          !.docs = <<selectorDoc.doc, updateDoc.doc>>])))))

decodeInsertOp(hdr, r) ==
  With(ReadFull(r, 4), LAMBDA flags :
  IF Failed(flags.err)
    THEN NoRequest("unable to read flags for insert op", flags.err.cause)
  ELSE With(decodeNamespacedCollection(flags.rest, PayloadLength(hdr) - 4), LAMBDA nsCol :
  IF Failed(nsCol.err)
    THEN NoRequest("unable to read namespaced collection for insert op", nsCol.err.cause)
  ELSE With(decodeDocuments(nsCol.rest, << >>), LAMBDA docs :
  IF Failed(docs.err)
    THEN NoRequest("unable to read doc list for insert op", docs.err.cause)
  ELSE [RequestInfo(hdr, "insert", "None") EXCEPT
          !.db = nsCol.db, !.col = nsCol.col, !.docs = docs.docs])))

decodeGetMoreOp(hdr, r) ==
  With(ReadFull(r, 4), LAMBDA reserved :
  IF Failed(reserved.err)
    THEN NoRequest("unable to reserved reserved field for getMore op", reserved.err.cause)
  ELSE With(decodeNamespacedCollection(reserved.rest, PayloadLength(hdr) - 4), LAMBDA nsCol :
  IF Failed(nsCol.err)
    THEN NoRequest("unable to read namespaced collection for getMore op", nsCol.err.cause)
  ELSE With(ReadFull(nsCol.rest, 4), LAMBDA numToReturn :
  IF Failed(numToReturn.err)
    THEN NoRequest("unable to read number to return for getMore op", numToReturn.err.cause)
  ELSE With(ReadFull(numToReturn.rest, 8), LAMBDA cursorID :
  IF Failed(cursorID.err)
    THEN NoRequest("unable to read cursor ID for getMore op", cursorID.err.cause)
  ELSE [RequestInfo(hdr, "getMore", "OpReply") EXCEPT
          !.db = nsCol.db, !.col = nsCol.col, !.ids = <<cursorID.bytes>>]))))

decodeDeleteOp(hdr, r) ==
  With(ReadFull(r, 4), LAMBDA reserved :
  IF Failed(reserved.err)
    THEN NoRequest("unable to reserved reserved field for delete op", reserved.err.cause)
  ELSE With(decodeNamespacedCollection(reserved.rest, PayloadLength(hdr) - 4), LAMBDA nsCol :
  IF Failed(nsCol.err)
    THEN NoRequest("unable to read namespaced collection for delete op", nsCol.err.cause)
  ELSE With(ReadFull(nsCol.rest, 4), LAMBDA flags :
  IF Failed(flags.err)
    THEN NoRequest("unable to read flags for delete op", flags.err.cause)
  ELSE With(decodeBSONDocument(flags.rest), LAMBDA queryDoc :
  IF Failed(queryDoc.err)
    THEN NoRequest("unable to read selector doc for delete op", queryDoc.err.cause)
  ELSE [RequestInfo(hdr, "delete", "None") EXCEPT
          !.db = nsCol.db, !.col = nsCol.col, !.docs = <<queryDoc.doc>>]))))

\* The cursor ids of OP_KILL_CURSORS, eight bytes each, read one by one.
RECURSIVE readCursorIDs(_, _, _)
readCursorIDs(r, n, ids0) ==
  With(ids0, LAMBDA ids :
    IF Len(ids) = n THEN [err |-> NoDecErr, ids |-> ids]
    ELSE With(ReadFull(r, 8), LAMBDA id :
           IF Failed(id.err) THEN [err |-> id.err, ids |-> << >>]
           ELSE readCursorIDs(id.rest, n, Append(ids, id.bytes))))

\* make([]int64, numCursors) with a negative length: the runtime panics with
\* "makeslice: len out of range", and nothing between here and the
\* connection's goroutine recovers.
MakeSlicePanic ==
  [NoRequest("runtime error: makeslice: len out of range", "panic") EXCEPT !.panic = TRUE]

decodeKillCursorsOp(hdr, r) ==
  With(ReadFull(r, 4), LAMBDA reserved :
  IF Failed(reserved.err)
    THEN NoRequest("unable to reserved reserved field for killCursors op", reserved.err.cause)
  ELSE With(ReadFull(reserved.rest, 4), LAMBDA numCursors :
  IF Failed(numCursors.err)
    THEN NoRequest("unable to read number of cursor IDs for killCursors op", numCursors.err.cause)
  ELSE IF Int32At(numCursors.bytes, 0) < 0
    THEN MakeSlicePanic
  ELSE With(readCursorIDs(numCursors.rest, Int32At(numCursors.bytes, 0), << >>), LAMBDA cursorIDs :
  IF Failed(cursorIDs.err)
    THEN NoRequest("unable to read cursor ID for killCurosrs op", cursorIDs.err.cause)
  ELSE [RequestInfo(hdr, "killCursors", "None") EXCEPT !.ids = cursorIDs.ids])))

\* The keys of cmdDecoder, as the bytes of their names.
CmdInsert == <<105, 110, 115, 101, 114, 116>>
CmdUpdate == <<117, 112, 100, 97, 116, 101>>
CmdDelete == <<100, 101, 108, 101, 116, 101>>
CmdFind == <<102, 105, 110, 100>>
CmdFindAndModify == <<102, 105, 110, 100, 65, 110, 100, 77, 111, 100, 105, 102, 121>>

\* cmdDecoder[cmdName]: the name of the decoder, "" for nil.
cmdDecoder(cmdName) ==
  CASE cmdName = CmdInsert -> "decodeInsertCommand"
    [] cmdName = CmdUpdate -> "decodeUpdateCommand"
    [] cmdName = CmdDelete -> "decodeDeleteCommand"
    [] cmdName = CmdFind -> "decodeFindCommand"
    [] cmdName = CmdFindAndModify -> "decodeFindAndModifyCommand"
    [] OTHER -> ""

\* "$cmd" and "$db"
DollarCmd == <<36, 99, 109, 100>>
DollarDb == <<36, 100, 98>>

\* The keys the command decoders look up in cmdArgs.
KeyDocuments == <<100, 111, 99, 117, 109, 101, 110, 116, 115>>
KeyUpdates == <<117, 112, 100, 97, 116, 101, 115>>
KeyDeletes == <<100, 101, 108, 101, 116, 101, 115>>
KeyArrayFilters == <<97, 114, 114, 97, 121, 70, 105, 108, 116, 101, 114, 115>>
KeyRemove == <<114, 101, 109, 111, 118, 101>>
KeyUpdate == <<117, 112, 100, 97, 116, 101>>

\* queryDoc.Map() and delete(cmdArgs, cmdName): the elements under another
\* name than the command's; of two elements of one name the map keeps the last.
CmdArgs(doc, cmdName) == SelectSeq(doc, LAMBDA e : e.Name # cmdName)

HasKey(cmdArgs, key) == \E i \in 1..Len(cmdArgs) : cmdArgs[i].Name = key

\* cmdArgs[key]
ArgOf(cmdArgs, key) ==
  cmdArgs[CHOOSE i \in 1..Len(cmdArgs) :
            cmdArgs[i].Name = key /\ \A j \in (i + 1)..Len(cmdArgs) : cmdArgs[j].Name # key]

\* cmdArgs[key].(T) succeeds, T being the Go type of the kind.
IsKind(cmdArgs, key, kind) == HasKey(cmdArgs, key) /\ ArgOf(cmdArgs, key).kind = kind

\* Every element of a []interface{} is a bson.D.
AllDocuments(list) == \A i \in 1..Len(list) : list[i].kind = KindDocument

\* cmdArgs[sec.path] = sec.docList: the documents of a kind-1 section, as a
\* list under the section's path.
InjectDocSeq(cmdArgs, sec) ==
  Append(SelectSeq(cmdArgs, LAMBDA e : e.Name # sec.path),
         BsonElem(sec.path, KindArray,
                  [i \in 1..Len(sec.docList) |-> BsonElem(<< >>, KindDocument, sec.docList[i])]))

\* What a command decoder returns: a request type, or an error.
SubRequest(type) == [err |-> NoDecErr, type |-> type]
SubError(msg) == [err |-> DecErr(msg, ""), type |-> ""]

decodeInsertCommand(cmdArgs) ==
  IF ~IsKind(cmdArgs, KeyDocuments, KindArray)
    THEN SubError("malformed insert command in query doc: invalid doc list")
  ELSE IF ~AllDocuments(ArgOf(cmdArgs, KeyDocuments).Value)
    THEN SubError("malformed insert command in query doc: invalid doc")
  ELSE SubRequest("insert")

\* The array filters are looked at once for every update document, so not at
\* all when there is none, and before the update documents that follow.
decodeUpdateCommand(cmdArgs) ==
  IF ~IsKind(cmdArgs, KeyUpdates, KindArray)
    THEN SubError("malformed update command in query doc: invalid updates list")
  ELSE With(ArgOf(cmdArgs, KeyUpdates).Value, LAMBDA updatesDoc :
    IF Len(updatesDoc) = 0 THEN SubRequest("update")
    ELSE IF updatesDoc[1].kind # KindDocument
      THEN SubError("malformed update command in query doc: invalid update doc")
    ELSE IF /\ IsKind(cmdArgs, KeyArrayFilters, KindArray)
            /\ ~AllDocuments(ArgOf(cmdArgs, KeyArrayFilters).Value)
      THEN SubError("malformed update command in query doc: invalid update doc: invalid array filter")
    ELSE IF ~AllDocuments(updatesDoc)
      THEN SubError("malformed update command in query doc: invalid update doc")
    ELSE SubRequest("update"))

decodeDeleteCommand(cmdArgs) ==
  IF ~IsKind(cmdArgs, KeyDeletes, KindArray)
    THEN SubError("malformed delete command in query doc: invalid deletes list")
  ELSE IF ~AllDocuments(ArgOf(cmdArgs, KeyDeletes).Value)
    THEN SubError("malformed delete command in query doc: invalid delete doc")
  ELSE SubRequest("delete")

decodeFindCommand(cmdArgs) == SubRequest("query")

decodeFindAndModifyCommand(cmdArgs) ==
  IF IsKind(cmdArgs, KeyRemove, KindBool) /\ ArgOf(cmdArgs, KeyRemove).Value = TRUE
    THEN SubRequest("findAndDelete")
  ELSE IF ~IsKind(cmdArgs, KeyUpdate, KindDocument)
    THEN SubError("findAndModify command missing update document in arg list")
  ELSE IF /\ IsKind(cmdArgs, KeyArrayFilters, KindArray)
          /\ ~AllDocuments(ArgOf(cmdArgs, KeyArrayFilters).Value)
    THEN SubError("malformed findAndUpdate command: invalid array filter")
  ELSE SubRequest("findAndUpdate")

\* dec(hdr, nsCol, cmdArgs, replyType), dec being cmdDecoder[cmdName]: the
\* decoder's request, with the reply type the decoder gives it, or its error.
decodeCommand(hdr, db, col, cmdName, cmdArgs, docs, seqs, replyType) ==
  With(CASE cmdName = CmdInsert -> decodeInsertCommand(cmdArgs)
         [] cmdName = CmdUpdate -> decodeUpdateCommand(cmdArgs)
         [] cmdName = CmdDelete -> decodeDeleteCommand(cmdArgs)
         [] cmdName = CmdFind -> decodeFindCommand(cmdArgs)
         [] OTHER -> decodeFindAndModifyCommand(cmdArgs),
       LAMBDA sub :
         IF Failed(sub.err) THEN NoRequest(sub.err.msg, "")
         ELSE [RequestInfo(hdr, sub.type, subDecoderReplyType(cmdName, replyType)) EXCEPT
                 !.db = db, !.col = col, !.cmd = cmdName, !.docs = docs, !.seqs = seqs])

\* The collection a command names: the value of its first element when that
\* is a string, the one decoded so far otherwise.
CommandCollection(doc, col) ==
  IF doc[1].kind = KindString THEN doc[1].Value ELSE col

decodeQueryOp(hdr, r) ==
  With(ReadFull(r, 4), LAMBDA flags :
  IF Failed(flags.err)
    THEN NoRequest("unable to read flags for query op", flags.err.cause)
  ELSE With(decodeNamespacedCollection(flags.rest, PayloadLength(hdr) - 4), LAMBDA nsCol :
  IF Failed(nsCol.err)
    THEN NoRequest("unable to read namespaced collection for query op", nsCol.err.cause)
  ELSE With(ReadFull(nsCol.rest, 4), LAMBDA numToSkip :
  IF Failed(numToSkip.err)
    THEN NoRequest("unable to read number of docs to skip for query op", numToSkip.err.cause)
  ELSE With(ReadFull(numToSkip.rest, 4), LAMBDA numToReturn :
  IF Failed(numToReturn.err)
    THEN NoRequest("unable to read number of docs to return for query op", numToReturn.err.cause)
  ELSE With(decodeBSONDocument(numToReturn.rest), LAMBDA queryDoc :
  IF Failed(queryDoc.err)
    THEN NoRequest("unable to read query doc for query op", queryDoc.err.cause)
  ELSE With(decodeBSONDocument(queryDoc.rest), LAMBDA fieldSelectorDoc :
  IF Failed(fieldSelectorDoc.err) /\ fieldSelectorDoc.err.cause # "EOF"
    THEN NoRequest("unable to read field selector doc for query op", fieldSelectorDoc.err.cause)
  ELSE IF nsCol.col # DollarCmd
    THEN [RequestInfo(hdr, "query", "OpReply") EXCEPT
            !.db = nsCol.db, !.col = nsCol.col,
            !.docs = <<queryDoc.doc,
                       IF Failed(fieldSelectorDoc.err) THEN << >> ELSE fieldSelectorDoc.doc>>]
  ELSE IF Len(queryDoc.doc) = 0
    THEN NoRequest("malformed query command", "")
  ELSE IF cmdDecoder(queryDoc.doc[1].Name) # ""
    THEN decodeCommand(hdr, nsCol.db, CommandCollection(queryDoc.doc, nsCol.col),
                       queryDoc.doc[1].Name, CmdArgs(queryDoc.doc, queryDoc.doc[1].Name),
                       <<queryDoc.doc>>, << >>, "OpReply")
  ELSE [RequestInfo(hdr, "command", "OpReply") EXCEPT
          !.db = nsCol.db, !.col = CommandCollection(queryDoc.doc, nsCol.col),
          !.cmd = queryDoc.doc[1].Name, !.docs = <<queryDoc.doc>>]))))))

\* One section of kind 1: a uint32 size, then within size-4 bytes a path and
\* documents up to the end of the section.
decodeDocSeqSection(r) ==
  LET bad(msg, cause) ==
        [err |-> DecErr(msg, cause), path |-> << >>, docList |-> << >>, rest |-> << >>]
  IN With(ReadFull(r, 4), LAMBDA sz :
       IF Failed(sz.err)
         THEN bad("unable to read size for section of type 1 in msg op", sz.err.cause)
       ELSE With(Uint32Of(sz.bytes), LAMBDA size :
       With(First(sz.rest, IF size - 4 > 0 THEN size - 4 ELSE 0), LAMBDA sectionReader :
       With(decodeCString(sectionReader, size), LAMBDA path :
       IF Failed(path.err)
         THEN bad("unable to parse override path in section of type 1 in msg op", path.err.cause)
       ELSE With(decodeDocuments(path.rest, << >>), LAMBDA docs :
       IF Failed(docs.err)
         THEN bad("unable to parse doc in section of type 1 in msg op", docs.err.cause)
       ELSE [err |-> NoDecErr, path |-> path.val, docList |-> docs.docs,
             rest |-> After(sz.rest, Len(sectionReader))])))))

\* The section loop of decodeMsgOp: it ends when the reader is empty, a
\* section of kind 0 replaces the body section read before it, a section of
\* kind 1 is appended to the ones read before it.
RECURSIVE decodeSections(_, _, _)
decodeSections(r, bodySection0, docSeqSections0) ==
  LET bad(msg, cause) ==
        [err |-> DecErr(msg, cause), bodySection |-> << >>, docSeqSections |-> << >>,
         rest |-> << >>]
  IN With(<<bodySection0, docSeqSections0>>, LAMBDA a :
       LET bodySection == a[1]
           docSeqSections == a[2]
       IN IF Len(r) = 0
            THEN [err |-> NoDecErr, bodySection |-> bodySection,
                  docSeqSections |-> docSeqSections, rest |-> r]
          ELSE IF r[1] = 0
            THEN With(decodeBSONDocument(Tail(r)), LAMBDA cmdDoc :
                   IF Failed(cmdDoc.err)
                     THEN bad("unable to read body for section of type 0 in msg op",
                              cmdDoc.err.cause)
                   ELSE IF Len(cmdDoc.doc) = 0
                     THEN bad("malformed command in section of type 0 in msg op", "")
                   ELSE decodeSections(cmdDoc.rest, cmdDoc.doc, docSeqSections))
          ELSE IF r[1] = 1
            THEN With(decodeDocSeqSection(Tail(r)), LAMBDA sec :
                   IF Failed(sec.err)
                     THEN bad(sec.err.msg, sec.err.cause)
                     ELSE decodeSections(sec.rest, bodySection,
                            Append(docSeqSections,
                                   [path |-> sec.path, docList |-> sec.docList])))
          ELSE bad("unknown type for section in msg op", ""))

\* cmdArgs["$db"] once the command's own element is deleted: the value of
\* the last element named $db, when it is a non-empty string.
DbOf(doc) ==
  LET named == {i \in 1..Len(doc) : doc[i].Name = DollarDb /\ doc[i].Name # doc[1].Name}
      last == CHOOSE i \in named : \A j \in named : j <= i
  IN IF named # {} /\ doc[last].kind = KindString THEN doc[last].Value ELSE << >>

decodeMsgOp(hdr, r) ==
  With(ReadFull(r, 4), LAMBDA flags :
  IF Failed(flags.err)
    THEN NoRequest("unable to read flags for msg op", flags.err.cause)
  ELSE With(decodeSections(flags.rest, << >>, << >>), LAMBDA s :
  IF Failed(s.err)
    THEN NoRequest(s.err.msg, s.err.cause)
  ELSE With(ReadFull(s.rest, 4), LAMBDA crc32 :
  IF Uint32Of(flags.bytes) % 2 = 1 /\ Failed(crc32.err)
    THEN NoRequest("unable to read CRC32 value for msg op", crc32.err.cause)
  ELSE IF Len(s.bodySection) = 0
    THEN NoRequest("unable to parse msg op: no type 0 section present", "")
  ELSE IF Len(s.docSeqSections) > 1
    THEN NoRequest("unable to parse msg op: parser only supports up to one section of type 1", "")
  ELSE IF Len(s.docSeqSections) = 1 /\ DotAt(s.docSeqSections[1].path) # 0
    THEN NoRequest("unable to parse msg op: parser does not support nested paths for type 1 payloads", "")
  ELSE IF cmdDecoder(s.bodySection[1].Name) # ""
    THEN With(decodeCommand(hdr, DbOf(s.bodySection),
                            CommandCollection(s.bodySection, << >>),
                            s.bodySection[1].Name,
                            IF Len(s.docSeqSections) = 1
                              THEN InjectDocSeq(CmdArgs(s.bodySection, s.bodySection[1].Name),
                                                s.docSeqSections[1])
                              ELSE CmdArgs(s.bodySection, s.bodySection[1].Name),
                            <<s.bodySection>>, s.docSeqSections, "OpMsg"),
              LAMBDA req :
                IF Failed(req.err)
                  THEN NoRequest("unable to parse command in msg op", req.err.cause)
                  ELSE req)
  ELSE [RequestInfo(hdr, "command", "OpMsg") EXCEPT
          !.db = DbOf(s.bodySection), !.col = CommandCollection(s.bodySection, << >>),
          !.cmd = s.bodySection[1].Name, !.docs = <<s.bodySection>>,
          !.seqs = s.docSeqSections])))

\* decodeUnknownOp: the rest of the frame, whatever it is.
decodeUnknownOp(hdr, r) ==
  [RequestInfo(hdr, "unknown", "None") EXCEPT !.payload = r]

\* protocol.Decode on the bytes of one frame.
DecodeBytes(req) ==
  With(decodeHeader(req), LAMBDA h :
    IF Failed(h.err)
      THEN NoRequest("unable to decode request header", h.err.cause)
    ELSE CASE h.hdr.Opcode = 2001 -> decodeUpdateOp(h.hdr, h.rest)
           [] h.hdr.Opcode = 2002 -> decodeInsertOp(h.hdr, h.rest)
           [] h.hdr.Opcode = 2004 -> decodeQueryOp(h.hdr, h.rest)
           [] h.hdr.Opcode = 2005 -> decodeGetMoreOp(h.hdr, h.rest)
           [] h.hdr.Opcode = 2006 -> decodeDeleteOp(h.hdr, h.rest)
           [] h.hdr.Opcode = 2007 -> decodeKillCursorsOp(h.hdr, h.rest)
           [] h.hdr.Opcode = 2013 -> decodeMsgOp(h.hdr, h.rest)
           [] OTHER -> decodeUnknownOp(h.hdr, h.rest))

--------------------------------------------------------------------------
(* Decode called on frames: the frames are put together from their parts,  *)
(* as a client would send them, or cut short at every length.              *)

MaxSections == 3
MaxCursors == 2

\* A frame of opcode op: the header announces the frame's own length.
WireFrame(id, op, body) ==
  Int32LE(sizeOfRPCHeader + Len(body)) \o Int32LE(id) \o Int32LE(0) \o Int32LE(op) \o body

\* BSON elements and documents as bson.Marshal writes them.
CStr(s) == s \o <<0>>
ElemInt32(name, v) == <<KindInt32>> \o CStr(name) \o Int32LE(v)
ElemString(name, s) == <<KindString>> \o CStr(name) \o Int32LE(Len(s) + 1) \o CStr(s)
ElemBool(name, v) == <<KindBool>> \o CStr(name) \o <<IF v THEN 1 ELSE 0>>
ElemDocument(name, doc) == <<KindDocument>> \o CStr(name) \o doc
ElemArray(name, doc) == <<KindArray>> \o CStr(name) \o doc
ElemDouble(name) == <<1>> \o CStr(name) \o <<0, 0, 0, 0, 0, 0, 240, 63>>
DocBytes(elems) == Marshal(EncDoc(TRUE, elems)).bytes

\* {ping: 1}, {count: "c", $db: "d"}, {a: 1}, {insert: "c"} and "d.c",
\* "d.$cmd", "documents", "a.b"
DocPing == DocBytes(ElemInt32(<<112, 105, 110, 103>>, 1))
DocCount == DocBytes(ElemString(<<99, 111, 117, 110, 116>>, <<99>>) \o ElemString(DollarDb, <<100>>))
DocA == DocBytes(ElemInt32(<<97>>, 1))
DocInsert == DocBytes(ElemString(CmdInsert, <<99>>))
NsDC == <<100, Dot, 99>>
NsCmd == <<100, Dot>> \o DollarCmd
PathDocuments == KeyDocuments
PathDotted == <<97, Dot, 98>>

\* {insert: "c", documents: [{a: 1}]}, {insert: "c", documents: [1.0]},
\* {findAndModify: "c", remove: true}, {findAndModify: "c", remove: false},
\* {findAndModify: "c", update: {a: 1}}, {a: true, b: 2} with the bool
\* sent as the byte 2, {update: "c", updates: [{a: 1}], arrayFilters: [1.0]},
\* {update: "c", updates: [], arrayFilters: [1.0]} and
\* {findAndModify: "c", update: {a: 1}, arrayFilters: [1.0]}
DocInsertList ==
  DocBytes(ElemString(CmdInsert, <<99>>)
           \o ElemArray(KeyDocuments, DocBytes(ElemDocument(<<48>>, DocA))))
DocInsertNumbers ==
  DocBytes(ElemString(CmdInsert, <<99>>)
           \o ElemArray(KeyDocuments, DocBytes(ElemDouble(<<48>>))))
DocFindAndRemove == DocBytes(ElemString(CmdFindAndModify, <<99>>) \o ElemBool(KeyRemove, TRUE))
DocFindNoRemove == DocBytes(ElemString(CmdFindAndModify, <<99>>) \o ElemBool(KeyRemove, FALSE))
DocFindAndUpdate ==
  DocBytes(ElemString(CmdFindAndModify, <<99>>) \o ElemDocument(KeyUpdate, DocA))
DocBadBool == DocBytes(<<KindBool, 97, 0, 2>> \o ElemInt32(<<98>>, 2))
DocUpdateBadFilter ==
  DocBytes(ElemString(CmdUpdate, <<99>>)
           \o ElemArray(KeyUpdates, DocBytes(ElemDocument(<<48>>, DocA)))
           \o ElemArray(KeyArrayFilters, DocBytes(ElemDouble(<<48>>))))
DocNoUpdatesBadFilter ==
  DocBytes(ElemString(CmdUpdate, <<99>>)
           \o ElemArray(KeyUpdates, DocBytes(<< >>))
           \o ElemArray(KeyArrayFilters, DocBytes(ElemDouble(<<48>>))))
DocFindAndUpdateBadFilter ==
  DocBytes(ElemString(CmdFindAndModify, <<99>>) \o ElemDocument(KeyUpdate, DocA)
           \o ElemArray(KeyArrayFilters, DocBytes(ElemDouble(<<48>>))))

\* An OP_QUERY on d.$cmd with the command document doc.
QueryCmdFrame(doc) ==
  WireFrame(1, 2004, Int32LE(0) \o CStr(NsCmd) \o Int32LE(0) \o Int32LE(1) \o doc)

\* The sections of an OP_MSG: kind 0 with a document; kind 1 with its size,
\* a path and documents; a kind that does not exist.
BodySection(doc) == [kind |-> "body", path |-> << >>, bytes |-> <<0>> \o doc]
DocSeqSection(path, docs) ==
  [kind |-> "docSeq", path |-> path,
   bytes |-> <<1>> \o Int32LE(4 + Len(path) + 1 + Len(docs)) \o CStr(path) \o docs]
UnknownSection == [kind |-> "unknown", path |-> << >>, bytes |-> <<2>> \o DocA]

Sections ==
  { BodySection(DocPing), BodySection(DocCount), BodySection(DocInsert),
    DocSeqSection(PathDocuments, DocA), DocSeqSection(PathDotted, DocA), UnknownSection }

SectionSeqs == UNION { [1..n -> Sections] : n \in 0..MaxSections }

RECURSIVE SectionBytes(_)
SectionBytes(secs) ==
  IF secs = << >> THEN << >> ELSE Head(secs).bytes \o SectionBytes(Tail(secs))

\* No checksum, or the four bytes of one.
Checksums == { << >>, <<202, 254, 186, 190>>, <<0, 1, 2, 3>> }

MsgFrame(id, flags, secs, crc) ==
  WireFrame(id, 2013, Int32LE(flags) \o SectionBytes(secs) \o crc)

\* An input of Decode: the bytes, and the parts they were put together from.
WireInput(class, bytes, flags, secs, crc, count, present) ==
  [class |-> class, bytes |-> bytes, flags |-> flags, secs |-> secs, crc |-> crc,
   count |-> count, present |-> present]

HeaderOnlyInputs ==
  { WireInput("header", WireFrame(id, op, << >>), 0, << >>, << >>, 0, 0) :
      id \in {1, 2}, op \in Opcodes }

MsgInputs ==
  { WireInput("msg", MsgFrame(1, flags, secs, crc), flags, secs, crc, 0, 0) :
      flags \in {0, 1}, secs \in SectionSeqs, crc \in Checksums }

\* OP_KILL_CURSORS announcing count cursor ids and carrying present of them.
CursorID == <<7, 0, 0, 0, 0, 0, 0, 0>>
RECURSIVE CursorIDs(_)
CursorIDs(n) == IF n = 0 THEN << >> ELSE CursorID \o CursorIDs(n - 1)

KillCursorsInputs ==
  { WireInput("killCursors",
              WireFrame(1, 2007, Int32LE(0) \o Int32LE(count) \o CursorIDs(present)),
              0, << >>, << >>, count, present) :
      count \in -1..MaxCursors, present \in 0..MaxCursors }

\* One well-formed frame of every other opcode, and OP_QUERY commands.
WholeFrames ==
  { WireFrame(1, 2001, Int32LE(0) \o CStr(NsDC) \o Int32LE(0) \o DocA \o DocA),
    WireFrame(1, 2002, Int32LE(0) \o CStr(NsDC) \o DocA \o DocA),
    WireFrame(1, 2004, Int32LE(0) \o CStr(NsDC) \o Int32LE(0) \o Int32LE(1) \o DocA),
    QueryCmdFrame(DocPing), QueryCmdFrame(DocInsert), QueryCmdFrame(DocInsertList),
    QueryCmdFrame(DocInsertNumbers), QueryCmdFrame(DocFindAndRemove),
    QueryCmdFrame(DocFindNoRemove), QueryCmdFrame(DocFindAndUpdate),
    QueryCmdFrame(DocBadBool), QueryCmdFrame(DocUpdateBadFilter),
    QueryCmdFrame(DocNoUpdatesBadFilter), QueryCmdFrame(DocFindAndUpdateBadFilter),
    WireFrame(1, 2005, Int32LE(0) \o CStr(NsDC) \o Int32LE(1) \o CursorID),
    WireFrame(1, 2006, Int32LE(0) \o CStr(NsDC) \o Int32LE(0) \o DocA),
    WireFrame(1, 2010, DocA) }

\* Every frame of WholeFrames, whole and cut short at every length.
CutInputs ==
  UNION { { WireInput(IF n = Len(f) THEN "whole" ELSE "cut", First(f, n),
                      0, << >>, << >>, 0, 0) : n \in 0..Len(f) } : f \in WholeFrames }

WireInputs == HeaderOnlyInputs \cup MsgInputs \cup KillCursorsInputs \cup CutInputs

CallDecodeBytes ==
  /\ cfn = "none"
  /\ \E input \in WireInputs :
       /\ cfn' = "DecodeBytes"
       /\ cargs' = input
       /\ cret' = DecodeBytes(input.bytes)
  /\ UNCHANGED <<emuVars, listenVars, recVars, framerVars, remoteVars, decoders>>

WireNext == CallDecodeBytes

WireStart ==
  /\ EmulatorInit([c \in Clients |-> 0])
  /\ ListenInit
  /\ RecorderInit
  /\ FramerInit
  /\ DecoderInit
  /\ RemoteInit

WireSpec == WireStart /\ [][WireNext]_vars

\* The opcodes of opDecoder.
Recognized == {2001, 2002, 2004, 2005, 2006, 2007, 2013}

\* The request type each opcode decoder gives a request.
VariantOf(op) ==
  CASE op = 2001 -> "update"
    [] op = 2002 -> "insert"
    [] op = 2004 -> "query"
    [] op = 2005 -> "getMore"
    [] op = 2006 -> "delete"
    [] op = 2007 -> "killCursors"
    [] op = 2013 -> "command"
    [] OTHER -> "unknown"

\* Decode was called on a frame that is a header and nothing else.
DecodedHeaderOnly ==
  /\ cfn = "DecodeBytes"
  /\ Len(cargs.bytes) = sizeOfRPCHeader
  /\ Int32At(cargs.bytes, 0) = sizeOfRPCHeader

\* C23 as stated: every frame of messageLength 16 decodes, to an Unknown
\* request with empty payload for an unrecognized opcode and to the request
\* variant of its opcode for each recognized opcode.
C23_HeaderOnlyFrameDecodes ==
  DecodedHeaderOnly =>
    /\ ~Failed(cret.err)
    /\ cret.type = VariantOf(Int32At(cargs.bytes, 12))
    /\ cret.payload = << >>

\* C23 amended: a frame of messageLength 16 decodes to an Unknown request
\* with empty payload when its opcode is unrecognized, and is refused with a
\* decode error caused by io.EOF, without a panic, when its opcode is one of
\* 2001, 2002, 2004, 2005, 2006, 2007, 2013.
C23_HeaderOnlyDecodesOnlyAsUnknown ==
  DecodedHeaderOnly =>
    IF Int32At(cargs.bytes, 12) \in Recognized
      THEN Failed(cret.err) /\ cret.err.cause = "EOF" /\ ~cret.panic /\ cret.type = ""
      ELSE /\ ~Failed(cret.err)
           /\ cret.type = "unknown"
           /\ cret.payload = << >>
           /\ cret.hdr.Opcode = Int32At(cargs.bytes, 12)

\* Both cases have happened: here, a header-only frame of a recognized
\* opcode was refused.
C23_Witness ==
  /\ DecodedHeaderOnly
  /\ Int32At(cargs.bytes, 12) = 2002
  /\ cret.err = DecErr("unable to read flags for insert op", "EOF")

\* How many sections of secs are of kind k.
CountKind(secs, k) == Cardinality({ i \in 1..Len(secs) : secs[i].kind = k })

\* Exactly one body section, at most one document sequence, its path
\* without a '.', and no section of an unknown kind.
WellFormedSections(secs) ==
  /\ CountKind(secs, "body") = 1
  /\ CountKind(secs, "docSeq") <= 1
  /\ CountKind(secs, "unknown") = 0
  /\ \A i \in 1..Len(secs) : DotAt(secs[i].path) = 0

\* Decode was called on an OP_MSG made of whole sections and nothing else.
DecodedMsg == cfn = "DecodeBytes" /\ cargs.class = "msg" /\ cargs.crc = << >>

\* C24: an OP_MSG decodes only if it has exactly one kind-0 body section and
\* at most one kind-1 section whose path has no '.'; with no body section,
\* two or more body sections, two document sequences, a dotted path or an
\* unknown section kind, Decode returns an error.
C24_OnlyWellFormedMsgDecodes ==
  DecodedMsg /\ ~WellFormedSections(cargs.secs) => Failed(cret.err)

\* Decode was called on an OP_MSG with the checksum flag set and a crc32
\* after its sections.
DecodedChecksummedMsg ==
  cfn = "DecodeBytes" /\ cargs.class = "msg" /\ cargs.flags = 1 /\ cargs.crc # << >>

\* What Decode makes of the same sections sent without flag and checksum.
Unchecksummed == DecodeBytes(MsgFrame(1, 0, cargs.secs, << >>))

\* C25: an OP_MSG with flagBits bit 0 set and a trailing crc32 decodes like
\* the same message without flag and checksum: wherever that one decodes,
\* this one decodes to the same request (the header's length apart).
C25_ChecksumIsSkipped ==
  DecodedChecksummedMsg /\ ~Failed(Unchecksummed.err) =>
    /\ ~Failed(cret.err)
    /\ [cret EXCEPT !.hdr = Unchecksummed.hdr] = Unchecksummed

\* C27: Decode is total: whatever the bytes, it returns a request or an
\* error and does not panic, also on an OP_KILL_CURSORS whose count is
\* negative or larger than the number of ids that follow.
C27_DecodeIsTotal ==
  cfn = "DecodeBytes" => ~cret.panic

--------------------------------------------------------------------------
(* A frame that does not decode, in the dispatcher.                        *)

\* Client c's HandleRequest takes its step out of "handle" on a frame that
\* Decode refuses.
DecodeFailsFor(c) ==
  pc[c] = "handle" /\ pc'[c] # "handle" /\ ~Decode(hr[c].frame).ok

\* C26: when Decode fails, HandleRequest returns an error, which ends the
\* connection's loop, and it has not called the backend, written a byte to
\* the client, or created or changed the client's lastError entry.
C26_DecodeFailureTouchesNothing ==
  [][\A c \in Clients :
       DecodeFailsFor(c) =>
         /\ hr'[c].ret = "error"
         /\ pc'[c] = "remove"
         /\ backendCalls'[c] = backendCalls[c]
         /\ hr'[c].wrote = NoCall.wrote
         /\ lastError' = lastError]_vars

\* A connection ended by a frame that did not decode: the call returned an
\* error, the backend was never called and nothing was written.
C26_Witness ==
  \E c \in Clients :
    /\ pc[c] = "remove"
    /\ endReason[c] = "decode"
    /\ ~Decode(hr[c].frame).ok
    /\ hr[c].ret = "error"
    /\ backendCalls[c] = << >>
    /\ hr[c].wrote = NoCall.wrote

--------------------------------------------------------------------------
(* The two sinks of the Recorder, record against record.                   *)

\* The records of a sink, by the request each was written for: a record
\* begins with its 4-byte length.
RecordIds(sink) ==
  LET lens == SelectSeq(sink, LAMBDA ch : ch.part = "len")
  IN [i \in DOMAIN lens |-> lens[i].id]

\* No call of Recorder.HandleRequest is under way.
BetweenCalls == \A c \in Clients : rpc[c] \in {"idle", "failed"}

\* C28: after any sequence of Recorder.HandleRequest calls, failed ones
\* included, the two sinks hold the same number of records and the k-th
\* record of the response sink belongs to the request of the k-th record of
\* the request sink.
C28_SinksStayPaired ==
  BetweenCalls => RecordIds(resStream) = RecordIds(reqStream)

--------------------------------------------------------------------------
(* RemoteMongo: every connection's task calls HandleRequest on the one     *)
(* handler, which has one connection to the upstream server and one        *)
(* response buffer and takes no lock.  A call is the statements of         *)
(* HandleRequest and pipeRemoteResponse, and within io.CopyN and           *)
(* Buffer.WriteTo the statements of bytes.Buffer around each blocking Read *)
(* and Write, one step each.  The buffer is a slice of a byte array and a  *)
(* read offset; grow replaces the array when the slice has no room, and a  *)
(* Read or Write under way keeps the array it was given.                   *)

MaxForwards == 2

\* bytes.MinRead: the room Buffer.ReadFrom asks grow for before each Read.
MinRead == 512

RemoteOtherVars == <<emuVars, listenVars, recVars, framerVars, callVars>>

\* The calls the handler has been given, over all connections.
RECURSIVE CallsOf(_)
CallsOf(cs) ==
  IF cs = {} THEN 0
  ELSE LET c == CHOOSE x \in cs : TRUE IN hcalls[c] + CallsOf(cs \ {c})

\* A byte that tells the connections' requests apart.
TagOf(c) == IF c = "c1" THEN 101 ELSE 202

\* The body of the upstream's response to request id: the first request of
\* a connection is answered with a body that is the request's own, a later
\* one with a header alone.
ResponseBody(id) == IF id[2] = 1 THEN <<TagOf(id[1]), id[2]>> ELSE << >>

\* The upstream's response to request id: a header announcing the length,
\* with an id of the connection's own and answering the request, and the
\* body.
ResponseBytes(id) ==
  Int32LE(sizeOfRPCHeader + Len(ResponseBody(id))) \o Int32LE(TagOf(id[1]))
    \o Int32LE(id[2]) \o Int32LE(1) \o ResponseBody(id)

\* cap of array a, the nil slice being array 0.
ArrayCap(a) == IF a = 0 THEN 0 ELSE arrays[a].cap

\* The bytes lo..hi-1 of array a; what was never written is zero.
Slice(a, lo, hi) ==
  [k \in 1..(hi - lo) |->
     IF lo + k <= Len(arrays[a].data) THEN arrays[a].data[lo + k] ELSE 0]

\* data with bytes copied to the places i..i+Len(bytes)-1.
Stored(data, i, bytes) ==
  LET n == IF Len(data) < i + Len(bytes) THEN i + Len(bytes) ELSE Len(data)
  IN [k \in 1..n |-> IF k > i /\ k <= i + Len(bytes) THEN bytes[k - i]
                     ELSE IF k <= Len(data) THEN data[k] ELSE 0]

\* h.resBuffer.Bytes(): b.buf[b.off:]
BufferBytes == Slice(resBuffer.arr, resBuffer.off, resBuffer.len)

\* A length, a uint32 or the int64 made of one: the number
\* hi * 65536 + lo, kept as its halves so that every value up to
\* 2^32 - 1 has its own.
Wide(hi, lo) == [hi |-> hi, lo |-> lo]

\* int64(n), n a number of bytes counted one by one.
WideOf(n) == Wide(n \div 65536, n % 65536)

\* u < n
WideLess(u, n) == u.hi < WideOf(n).hi \/ (u.hi = WideOf(n).hi /\ u.lo < WideOf(n).lo)

\* u - n, for n up to 65535 and no more than u.
WideMinus(u, n) ==
  IF u.lo >= n THEN Wide(u.hi, u.lo - n) ELSE Wide(u.hi - 1, u.lo + 65536 - n)

\* The smaller of u and n, which is no more than n.
WideMin(u, n) == IF WideLess(u, n) THEN u.hi * 65536 + u.lo ELSE n

\* binary.LittleEndian.Uint32 of the header's first bytes:
\* b[0] | b[1]<<8 | b[2]<<16 | b[3]<<24, every value from 0 to 2^32 - 1.
ResLenOf(b) == Wide(b[3] + 256 * b[4], b[1] + 256 * b[2])

\* b.Reset()
ResetOf(b) == [b EXCEPT !.len = 0, !.off = 0]

\* What a call holds inside io.CopyN and WriteTo: the bytes left to copy; the
\* array and the place given to the Read under way (place -1: none); the
\* array and the bounds of the slice given to the Write under way; the
\* bytes the Write wrote and whether it returned an error.
NoCopy ==
  [i |-> 0 - 1, rem |-> WideOf(0), arr |-> 0, lo |-> 0, hi |-> 0, n |-> 0,
   err |-> FALSE]
CopyOf(n) == [NoCopy EXCEPT !.rem = n]
ReadOf(a, i, rem) == [NoCopy EXCEPT !.arr = a, !.i = i, !.rem = rem]
WriteOf(a, lo, hi) == [NoCopy EXCEPT !.arr = a, !.lo = lo, !.hi = hi]
WrittenOf(n, err) == [NoCopy EXCEPT !.n = n, !.err = err]

\* b.grow(MinRead) and b.buf = b.buf[:i] of Buffer.ReadFrom: an empty buffer
\* with an offset is reset; a slice with room keeps its array; otherwise the
\* unread bytes are moved to the front of the array when that frees enough,
\* else to a new array of 2*cap + MinRead bytes.  i is the place the next
\* bytes go; slicing past the length panics.
Grown ==
  LET b == IF resBuffer.len - resBuffer.off = 0 /\ resBuffer.off # 0
             THEN ResetOf(resBuffer) ELSE resBuffer
      m == b.len - b.off
      c == ArrayCap(b.arr)
  IN IF MinRead <= c - b.len
       THEN [panic |-> FALSE, buf |-> b, arrays |-> arrays, i |-> b.len]
     ELSE IF b.off > b.len
       THEN [panic |-> TRUE, buf |-> b, arrays |-> arrays, i |-> 0]
     ELSE IF MinRead <= (c \div 2) - m
       THEN [panic |-> FALSE,
             buf |-> [arr |-> b.arr, len |-> m, off |-> 0],
             arrays |-> [arrays EXCEPT ![b.arr].data =
                           Stored(@, 0, Slice(b.arr, b.off, b.len))],
             i |-> m]
     ELSE [panic |-> FALSE,
           buf |-> [arr |-> Len(arrays) + 1, len |-> m, off |-> 0],
           arrays |-> Append(arrays, [cap |-> 2 * c + MinRead,
                                      data |-> IF m = 0 THEN << >>
                                               ELSE Slice(b.arr, b.off, b.len)]),
           i |-> m]

\* A task of the process is running: no task has panicked.
Running == \A c \in Clients : hpc[c] # "panic"

\* HandleRequest returns an error: handleConn returns and the connection
\* makes no further call.
RemoteFail(c) == hpc' = [hpc EXCEPT ![c] = "failed"]

\* A panic nobody recovers ends the process and every task with it.
RemotePanic == hpc' = [c \in Clients |-> "panic"]

\* Lines 49-57: the request is written to the upstream connection.  It is a
\* request the server answers (OP_QUERY, OP_GET_MORE, OP_MSG) or one it
\* never answers (OP_UPDATE, OP_INSERT, OP_DELETE, OP_KILL_CURSORS).
RemoteWrite(c) ==
  /\ Running
  /\ hpc[c] = "idle" /\ CallsOf(Clients) < MaxForwards
  /\ hcalls' = [hcalls EXCEPT ![c] = @ + 1]
  /\ \E reply \in BOOLEAN, ok \in BOOLEAN :
       IF ok THEN /\ remoteIn' = Append(remoteIn, [id |-> <<c, hcalls[c] + 1>>,
                                                    reply |-> reply,
                                                    sent |-> FALSE])
                  /\ hpc' = [hpc EXCEPT ![c] = "reset"]
             ELSE /\ RemoteFail(c)
                  /\ UNCHANGED remoteIn
  /\ UNCHANGED <<hresLen, hcopy, remoteOut, remoteOpen, resBuffer, arrays,
                 delivered, RemoteOtherVars>>

\* Line 68: the shared buffer's length and offset are set to zero, and line
\* 71 asks for the 16 bytes of the header.
RemoteReset(c) ==
  /\ Running
  /\ hpc[c] = "reset"
  /\ resBuffer' = ResetOf(resBuffer)
  /\ hcopy' = [hcopy EXCEPT ![c] = CopyOf(WideOf(sizeOfRPCHeader))]
  /\ hpc' = [hpc EXCEPT ![c] = "header"]
  /\ UNCHANGED <<hcalls, hresLen, remoteIn, remoteOut, remoteOpen, arrays,
                 delivered, RemoteOtherVars>>

\* The io.CopyN of c's call has copied all it was asked for: the one of
\* line 71 goes on to line 79, the one of line 86 to line 94.
CopyDone(c) ==
  /\ hpc' = [hpc EXCEPT ![c] = IF hpc[c] = "header" THEN "length" ELSE "forward"]
  /\ hcopy' = [hcopy EXCEPT ![c] = NoCopy]

\* Lines 71 and 86, io.CopyN into the buffer, an iteration of
\* Buffer.ReadFrom up to its Read: grow makes room and the task hands the
\* Read the array from the buffer's length on.  With nothing left to copy
\* the reader is at its limit, the Read returns at once and the copy is done.
RemoteGrow(c) ==
  /\ Running
  /\ hpc[c] \in {"header", "body"} /\ hcopy[c].i < 0
  /\ IF Grown.panic
       THEN /\ RemotePanic
            /\ UNCHANGED <<hcopy, resBuffer, arrays>>
       ELSE /\ resBuffer' = Grown.buf
            /\ arrays' = Grown.arrays
            /\ IF hcopy[c].rem = WideOf(0)
                 THEN CopyDone(c)
                 ELSE /\ hcopy' = [hcopy EXCEPT ![c] =
                                     ReadOf(Grown.buf.arr, Grown.i, hcopy[c].rem)]
                      /\ UNCHANGED hpc
  /\ UNCHANGED <<hcalls, hresLen, remoteIn, remoteOut, remoteOpen, delivered,
                 RemoteOtherVars>>

\* Lines 71-76 and 86-91, the Read of the copy and b.buf = b.buf[:i+m]: the
\* Read waits until the upstream connection has bytes or is closed, takes
\* what is there up to what is left to copy and to the room of the slice it
\* was given, and puts it in that array at the place it was given; then the buffer's length is set to the
\* end of it, whatever the buffer's array and length have become meanwhile,
\* which panics past the array's capacity.  On a closed connection the copy
\* is short and the call fails.
RemoteRead(c) ==
  /\ Running
  /\ hpc[c] \in {"header", "body"} /\ hcopy[c].i >= 0
  /\ LET i == hcopy[c].i
         room == ArrayCap(hcopy[c].arr) - i
         m == WideMin(hcopy[c].rem,
                      IF Len(remoteOut) < room THEN Len(remoteOut) ELSE room)
     IN IF remoteOut # << >>
          THEN /\ arrays' = [arrays EXCEPT ![hcopy[c].arr].data =
                               Stored(@, i, First(remoteOut, m))]
               /\ remoteOut' = After(remoteOut, m)
               /\ IF i + m > ArrayCap(resBuffer.arr)
                    THEN /\ RemotePanic
                         /\ UNCHANGED <<resBuffer, hcopy>>
                    ELSE /\ resBuffer' = [resBuffer EXCEPT !.len = i + m]
                         /\ hcopy' = [hcopy EXCEPT ![c] =
                                             CopyOf(WideMinus(hcopy[c].rem, m))]
                         /\ UNCHANGED hpc
          ELSE /\ ~remoteOpen
               /\ IF i > ArrayCap(resBuffer.arr)
                    THEN /\ RemotePanic
                         /\ UNCHANGED <<resBuffer, hcopy>>
                    ELSE /\ resBuffer' = [resBuffer EXCEPT !.len = i]
                         /\ hcopy' = [hcopy EXCEPT ![c] = NoCopy]
                         /\ RemoteFail(c)
               /\ UNCHANGED <<remoteOut, arrays>>
  /\ UNCHANGED <<hcalls, hresLen, remoteIn, remoteOpen, delivered,
                 RemoteOtherVars>>

\* Lines 79-86: the message length is taken from the first unread bytes the
\* buffer holds now, which panics when the offset is past the length or the
\* bytes are fewer than four, and line 86 asks for the rest of the message.
RemoteReadHeader(c) ==
  /\ Running
  /\ hpc[c] = "length"
  /\ IF resBuffer.off > resBuffer.len \/ resBuffer.len - resBuffer.off < 4
       THEN /\ RemotePanic
            /\ UNCHANGED <<hresLen, hcopy>>
       ELSE LET resLen == ResLenOf(BufferBytes) IN
            IF WideLess(resLen, sizeOfRPCHeader)
              THEN /\ RemoteFail(c)
                   /\ UNCHANGED <<hresLen, hcopy>>
              ELSE /\ hresLen' = [hresLen EXCEPT ![c] = resLen]
                   /\ hcopy' = [hcopy EXCEPT ![c] =
                                       CopyOf(WideMinus(resLen, sizeOfRPCHeader))]
                   /\ hpc' = [hpc EXCEPT ![c] = "body"]
  /\ UNCHANGED <<hcalls, remoteIn, remoteOut, remoteOpen, resBuffer, arrays,
                 delivered, RemoteOtherVars>>

\* Line 94, Buffer.WriteTo up to the call of w.Write: the Write is handed
\* the unread part of the buffer's slice.  With nothing unread there is no
\* Write: the buffer is reset and WriteTo returns 0, which is not resLen.
RemoteWriteTo(c) ==
  /\ Running
  /\ hpc[c] = "forward"
  /\ IF resBuffer.len - resBuffer.off > 0
       THEN /\ hcopy' = [hcopy EXCEPT ![c] =
                           WriteOf(resBuffer.arr, resBuffer.off, resBuffer.len)]
            /\ hpc' = [hpc EXCEPT ![c] = "write"]
            /\ UNCHANGED resBuffer
       ELSE /\ resBuffer' = ResetOf(resBuffer)
            /\ hcopy' = [hcopy EXCEPT ![c] = NoCopy]
            /\ IF hresLen[c] = WideOf(0)
                 THEN hpc' = [hpc EXCEPT ![c] = "idle"]
                 ELSE RemoteFail(c)
  /\ UNCHANGED <<hcalls, hresLen, remoteIn, remoteOut, remoteOpen, arrays,
                 delivered, RemoteOtherVars>>

\* The bytes a Write of n bytes that fails can have written before.
ShortWrites(n) == 0..(n - 1)

\* Line 94, w.Write: the bytes the slice's array holds when the client's
\* connection takes them are written, all of them, or the first of them
\* with an error.
RemoteClientWrite(c) ==
  /\ Running
  /\ hpc[c] = "write"
  /\ LET bytes == Slice(hcopy[c].arr, hcopy[c].lo, hcopy[c].hi) IN
     \E ok \in BOOLEAN :
       \E m \in IF ok THEN {Len(bytes)} ELSE ShortWrites(Len(bytes)) :
         /\ delivered' = [delivered EXCEPT ![c] =
                            IF m = 0 THEN @
                            ELSE Append(@, [call |-> hcalls[c],
                                            bytes |-> First(bytes, m),
                                            whole |-> ok])]
         /\ hcopy' = [hcopy EXCEPT ![c] = WrittenOf(m, ~ok)]
  /\ hpc' = [hpc EXCEPT ![c] = "written"]
  /\ UNCHANGED <<hcalls, hresLen, remoteIn, remoteOut, remoteOpen, resBuffer,
                 arrays, RemoteOtherVars>>

\* Lines 94-101, Buffer.WriteTo after w.Write has returned: the buffer's
\* offset moves on by what was written; after an error that is all, else
\* the buffer is reset and the call returns nil when resLen bytes were
\* written.
RemoteForward(c) ==
  /\ Running
  /\ hpc[c] = "written"
  /\ hcopy' = [hcopy EXCEPT ![c] = NoCopy]
  /\ IF hcopy[c].err
       THEN /\ resBuffer' = [resBuffer EXCEPT !.off = @ + hcopy[c].n]
            /\ RemoteFail(c)
       ELSE /\ resBuffer' = ResetOf(resBuffer)
            /\ IF WideOf(hcopy[c].n) = hresLen[c]
                 THEN hpc' = [hpc EXCEPT ![c] = "idle"]
                 ELSE RemoteFail(c)
  /\ UNCHANGED <<hcalls, hresLen, remoteIn, remoteOut, remoteOpen, arrays,
                 delivered, RemoteOtherVars>>

\* The upstream server takes the next request and sends its response, the
\* header and then the body, if the request is one it answers.
UpstreamReply ==
  /\ remoteOpen
  /\ remoteIn # << >>
  /\ LET req == Head(remoteIn)
         res == ResponseBytes(req.id)
     IN IF ~req.reply
          THEN /\ remoteIn' = Tail(remoteIn)
               /\ UNCHANGED remoteOut
          ELSE IF ~req.sent
            THEN /\ remoteOut' = remoteOut \o First(res, sizeOfRPCHeader)
                 /\ remoteIn' = IF ResponseBody(req.id) = << >>
                                  THEN Tail(remoteIn)
                                  ELSE <<[req EXCEPT !.sent = TRUE]>> \o Tail(remoteIn)
            ELSE /\ remoteOut' = remoteOut \o After(res, sizeOfRPCHeader)
                 /\ remoteIn' = Tail(remoteIn)
  /\ UNCHANGED <<hpc, hcalls, hresLen, hcopy, remoteOpen, resBuffer, arrays,
                 delivered, RemoteOtherVars>>

\* The upstream server closes the connection.
UpstreamClose ==
  /\ remoteOpen
  /\ remoteOpen' = FALSE
  /\ UNCHANGED <<hpc, hcalls, hresLen, hcopy, remoteIn, remoteOut, resBuffer,
                 arrays, delivered, RemoteOtherVars>>

\* The steps of c's call after the request has been written.
RemotePipe(c) ==
  \/ RemoteReset(c)
  \/ RemoteGrow(c)
  \/ RemoteRead(c)
  \/ RemoteReadHeader(c)
  \/ RemoteWriteTo(c)
  \/ RemoteClientWrite(c)
  \/ RemoteForward(c)

RemoteNext ==
  \/ \E c \in Clients : RemoteWrite(c)
  \/ \E c \in Clients : RemoteReset(c)
  \/ \E c \in Clients : RemoteGrow(c)
  \/ \E c \in Clients : RemoteRead(c)
  \/ \E c \in Clients : RemoteReadHeader(c)
  \/ \E c \in Clients : RemoteWriteTo(c)
  \/ \E c \in Clients : RemoteClientWrite(c)
  \/ \E c \in Clients : RemoteForward(c)
  \/ UpstreamReply
  \/ UpstreamClose

RemoteStart ==
  /\ EmulatorInit([c \in Clients |-> 0])
  /\ ListenInit
  /\ RecorderInit
  /\ FramerInit
  /\ CallInit
  /\ RemoteInit

RemoteSpec == RemoteStart /\ [][RemoteNext]_vars

\* The Go scheduler runs every task that can take a step, and a live
\* upstream server takes every request it is sent.
RemoteFairSpec ==
  /\ RemoteSpec
  /\ \A c \in Clients : WF_vars(RemotePipe(c))
  /\ WF_vars(UpstreamReply)

\* C29: when two or more connections share one RemoteMongo handler, each
\* client receives exactly the upstream's response to its own request, whole
\* and unmixed, under every interleaving of their calls: what a write to a
\* client wrote without an error is the response to the request of the call.
C29_EachClientGetsItsOwnResponse ==
  \A c \in Clients : \A i \in DOMAIN delivered[c] :
    delivered[c][i].whole =>
      delivered[c][i].bytes = ResponseBytes(<<c, delivered[c][i].call>>)

\* c's call of HandleRequest has written its request and has not returned.
Forwarding(c) ==
  hpc[c] \in {"reset", "header", "length", "body", "forward", "write", "written"}

\* C30: with a live upstream every call of RemoteMongo.HandleRequest
\* eventually returns, also for a request the upstream never answers, so
\* that the connection's next frame is read.
C30_EveryForwardedRequestReturns ==
  \A c \in Clients : Forwarding(c) ~> ~Forwarding(c)

==========================================================================
